---- MODULE Spec2Model ----
(***************************************************************************)
(* A model of the dip-screening core of stock_options_strategy_api:        *)
(*   - the container-wide Yahoo rate limiter   (utils/indicators.py)       *)
(*   - the provider resolver get_daily_history (utils/indicators.py)       *)
(*   - the file-backed cache                   (utils/screener.py)         *)
(*   - the market-context cache                (utils/indicators.py)       *)
(*   - the scoring engine evaluate_strategy    (app.py)                    *)
(*   - the batch and streaming screeners       (utils/screener.py)         *)
(*                                                                         *)
(* Units.  Time is in whole seconds (time.time(), datetime.now()).         *)
(* Indicator readings are in tenths (RSI 20.0 is 200, a -8.0% return is    *)
(* -80): analyze_ticker rounds every reading to one decimal.  Score        *)
(* points are in hundredths (0.35 is 35).                                  *)
(***************************************************************************)
EXTENDS Integers, Sequences, FiniteSets, TLC

VARIABLES
    \* ---- clock and rate limiter (indicators.py:61-71)
    clock,            \* time.time(), seconds
    _LAST_CALL_TS,    \* module global, indicators.py:61
    _RATE_LOCK,       \* holder of threading.Lock, 0 when free
    pc,               \* per caller: position in its current call
    fn,               \* per caller: the function it is running
    wakeAt,           \* per caller: earliest time at which time.sleep returns
    gated,            \* per caller: has passed the gate for its pending request
    requests,         \* the primary-provider requests issued so far
    prevStamp,        \* the timestamp recorded by the passage before the last
    passes,           \* passages through the gate so far (counted up to 2)
    \* ---- provider resolver (indicators.py:27, 79-165)
    DATA_PROVIDER,    \* "auto" | "yahoo" | "stooq", read once from the environment
    hist,             \* the last get_daily_history call: inputs, calls made, outcome
    \* ---- file-backed cache (screener.py:45-97)
    files,            \* CACHE_DIR: per cache key, the file _get_cache_file names
    lastSet,          \* per cache key: the last _set_cached_data call on it
                      \* and the file it found
    fc,               \* the last cache call: arguments and outcome
    \* ---- market context (indicators.py:26-28, 192-247)
    ENABLE_MARKET_CONTEXT,  \* read once from the environment
    _MARKET_CACHE,    \* module global {"data": ..., "ts": ...}
    mc,               \* the last get_market_context call and what it returned
    \* ---- scoring (app.py:35-392)
    metrics,          \* the snapshot (dict) handed to evaluate_strategy
    ev,               \* what evaluate_strategy did with it
    readings,         \* what analyze_ticker computed before it rounded
    dip,              \* the last /check-dip request: what the client received
    \* ---- calculations (app.py:134-146, 394-415; indicators.py:168-189;
    \*      screener.py:401-423, 700-744)
    tq,               \* the last classify_tier call: arguments and tier
    rsi,              \* the last calculate_rsi call: arguments and outcome
    dov,              \* the days-oversold loop of analyze_ticker on a history
    pdrop,            \* the decline measure of one instrument, by mode
    \* ---- batch screener (screener.py:151-196, 288-523)
    screenFiles,      \* CACHE_DIR: the files of the screening_* cache keys
    scan,             \* the running or last screen_stocks call
    rot,              \* the free-tier rotation: the batch of each day so far
    loop,             \* the loop of screen_stocks, instrument by instrument
    stream,           \* the stream_screen_stocks generator and its events
    cmp               \* one instrument as screened in batch, streaming and
                      \* quick mode

gateVars == <<_LAST_CALL_TS, _RATE_LOCK, pc, fn, wakeAt, gated,
              requests, prevStamp, passes>>

histVars == <<DATA_PROVIDER, hist>>

fileVars == <<files, lastSet, fc>>

marketVars == <<ENABLE_MARKET_CONTEXT, _MARKET_CACHE, mc>>

scoreVars == <<metrics, ev, readings, dip>>

calcVars == <<tq, rsi, dov, pdrop>>

screenVars == <<screenFiles, scan, rot, loop, stream, cmp>>

vars == <<clock, gateVars, histVars, fileVars, marketVars, scoreVars, calcVars, screenVars>>

-----------------------------------------------------------------------------
(* Bounds *)

NumCallers == 2
MaxClock == 8
MaxDate == 2      \* dates of the rows a provider delivers: 1..MaxDate
MaxRows == 2      \* rows in one delivered table
MaxCacheHours == 2    \* the file cache is followed for this many hours
MaxAgeHours == 1      \* max_age_hours arguments: 1..MaxAgeHours
MaxMarketSteps == 3   \* the market cache is followed for this many half TTLs
MaxMarketCalls == 3   \* and for this many get_market_context calls
MaxSeries == 4        \* observations in a series handed to calculate_rsi
MaxWindow == 2        \* window arguments: 1..MaxWindow
RsiPeriod == 2        \* the RSI window of analyze_ticker (14), scaled down
DaysChecked == 3      \* the days its oversold loop checks (10), scaled down
MaxBars == 3          \* daily bars in one instrument's table
MaxResults == 2       \* max_results arguments: 1..MaxResults
MaxScanHours == 1     \* the screener is followed for this many hours
MaxUniverse == 4      \* symbols in the universe handed to get_screening_batch
MaxRotationDays == 5  \* the rotation is followed for this many days
MaxBatch == 2         \* symbols the loop of screen_stocks goes through
BatchSize == 2        \* batch_size of stream_screen_stocks (10), scaled down

(* Program constants *)

\* indicators.py:25  YF_MIN_INTERVAL = float(os.getenv("YF_MIN_INTERVAL", "3.0"))
YF_MIN_INTERVAL == 3

\* indicators.py:26  MARKET_CACHE_TTL = float(os.getenv("MARKET_CACHE_TTL", "600"))
MARKET_CACHE_TTL == 600

\* Python's None where a number is expected
NoneV == -9999

\* a key that the metrics dict does not have
Missing == -9998

Callers == 1..NumCallers

Max(a, b) == IF a >= b THEN a ELSE b
Min(a, b) == IF a <= b THEN a ELSE b

-----------------------------------------------------------------------------
(* Rate limiter: _respect_rate_limit, one step per statement *)

\* `with _RATE_LOCK:` can be entered only while no thread holds the lock
RateLockFree_NoLock == TRUE
RateLockFree == _RATE_LOCK = 0

\* the statements executed while the lock is held
InGate == {"read", "sleep", "stamp", "release"}

\* delay = YF_MIN_INTERVAL - (now - _LAST_CALL_TS)
Delay(t, last) == YF_MIN_INTERVAL - (t - last)

\* a caller enters _yahoo_history (indicators.py:112) and reaches the gate
CallYahooHistory(c) ==
    /\ pc[c] = "idle"
    /\ fn' = [fn EXCEPT ![c] = "_yahoo_history"]
    /\ pc' = [pc EXCEPT ![c] = "acquire"]
    /\ UNCHANGED <<clock, _LAST_CALL_TS, _RATE_LOCK, wakeAt, gated,
                   requests, prevStamp, passes>>
    /\ UNCHANGED <<histVars, fileVars, marketVars, scoreVars, calcVars, screenVars>>

\* a caller enters _yahoo_download (indicators.py:124) and reaches the gate
CallYahooDownload(c) ==
    /\ pc[c] = "idle"
    /\ fn' = [fn EXCEPT ![c] = "_yahoo_download"]
    /\ pc' = [pc EXCEPT ![c] = "acquire"]
    /\ UNCHANGED <<clock, _LAST_CALL_TS, _RATE_LOCK, wakeAt, gated,
                   requests, prevStamp, passes>>
    /\ UNCHANGED <<histVars, fileVars, marketVars, scoreVars, calcVars, screenVars>>

\* with _RATE_LOCK:
AcquireRateLock(c) ==
    /\ pc[c] = "acquire"
    /\ RateLockFree
    /\ _RATE_LOCK' = c
    /\ pc' = [pc EXCEPT ![c] = "read"]
    /\ UNCHANGED <<clock, _LAST_CALL_TS, fn, wakeAt, gated,
                   requests, prevStamp, passes>>
    /\ UNCHANGED <<histVars, fileVars, marketVars, scoreVars, calcVars, screenVars>>

\* now = time.time(); delay = YF_MIN_INTERVAL - (now - _LAST_CALL_TS);
\* if delay > 0: time.sleep(delay) starts
ReadElapsed(c) ==
    /\ pc[c] = "read"
    /\ IF Delay(clock, _LAST_CALL_TS) > 0
       THEN /\ wakeAt' = [wakeAt EXCEPT ![c] = clock + Delay(clock, _LAST_CALL_TS)]
            /\ pc' = [pc EXCEPT ![c] = "sleep"]
       ELSE /\ wakeAt' = wakeAt
            /\ pc' = [pc EXCEPT ![c] = "stamp"]
    /\ UNCHANGED <<clock, _LAST_CALL_TS, _RATE_LOCK, fn, gated,
                   requests, prevStamp, passes>>
    /\ UNCHANGED <<histVars, fileVars, marketVars, scoreVars, calcVars, screenVars>>

\* time.sleep(delay) returns once at least `delay` seconds have elapsed
SleepReturns(c) ==
    /\ pc[c] = "sleep"
    /\ clock >= wakeAt[c]
    /\ wakeAt' = [wakeAt EXCEPT ![c] = 0]
    /\ pc' = [pc EXCEPT ![c] = "stamp"]
    /\ UNCHANGED <<clock, _LAST_CALL_TS, _RATE_LOCK, fn, gated,
                   requests, prevStamp, passes>>
    /\ UNCHANGED <<histVars, fileVars, marketVars, scoreVars, calcVars, screenVars>>

\* _LAST_CALL_TS = time.time()
UpdateTimestamp(c) ==
    /\ pc[c] = "stamp"
    /\ _LAST_CALL_TS' = clock
    /\ prevStamp' = _LAST_CALL_TS
    /\ passes' = Min(passes + 1, 2)
    /\ gated' = [gated EXCEPT ![c] = TRUE]
    /\ pc' = [pc EXCEPT ![c] = "release"]
    /\ UNCHANGED <<clock, _RATE_LOCK, fn, wakeAt, requests>>
    /\ UNCHANGED <<histVars, fileVars, marketVars, scoreVars, calcVars, screenVars>>

\* leaving the `with` block releases the lock
ReleaseRateLock(c) ==
    /\ pc[c] = "release"
    /\ _RATE_LOCK' = IF _RATE_LOCK = c THEN 0 ELSE _RATE_LOCK
    /\ pc' = [pc EXCEPT ![c] = "request"]
    /\ UNCHANGED <<clock, _LAST_CALL_TS, fn, wakeAt, gated,
                   requests, prevStamp, passes>>
    /\ UNCHANGED <<histVars, fileVars, marketVars, scoreVars, calcVars, screenVars>>

\* t.history(...) / yf.download(...): the request goes out to Yahoo
IssueYahooRequest(c) ==
    /\ pc[c] = "request"
    /\ requests' = requests \cup {[fn |-> fn[c], gated |-> gated[c]]}
    /\ gated' = [gated EXCEPT ![c] = FALSE]
    /\ fn' = [fn EXCEPT ![c] = "none"]
    /\ pc' = [pc EXCEPT ![c] = "idle"]
    /\ UNCHANGED <<clock, _LAST_CALL_TS, _RATE_LOCK, wakeAt,
                   prevStamp, passes>>
    /\ UNCHANGED <<histVars, fileVars, marketVars, scoreVars, calcVars, screenVars>>

\* app.py:40-56  analyze_ticker: yf.Ticker(ticker).history(...), .info and the
\* intraday .history(...) go out to Yahoo straight away
AnalyzeTickerFetch(c) ==
    /\ pc[c] = "idle"
    /\ requests' = requests \cup {[fn |-> "analyze_ticker", gated |-> gated[c]]}
    /\ UNCHANGED <<clock, _LAST_CALL_TS, _RATE_LOCK, pc, fn, wakeAt, gated,
                   prevStamp, passes>>
    /\ UNCHANGED <<histVars, fileVars, marketVars, scoreVars, calcVars, screenVars>>

\* one second passes
Tick ==
    /\ clock < MaxClock
    /\ clock' = clock + 1
    /\ UNCHANGED <<gateVars, histVars, fileVars, marketVars, scoreVars, calcVars, screenVars>>

GateInit ==
    /\ _LAST_CALL_TS = 0
    /\ _RATE_LOCK = 0
    /\ pc = [c \in Callers |-> "idle"]
    /\ fn = [c \in Callers |-> "none"]
    /\ wakeAt = [c \in Callers |-> 0]
    /\ gated = [c \in Callers |-> FALSE]
    /\ requests = {}
    /\ prevStamp = 0
    /\ passes = 0

GateNext ==
    \/ \E c \in Callers : CallYahooHistory(c)
    \/ \E c \in Callers : CallYahooDownload(c)
    \/ \E c \in Callers : AcquireRateLock(c)
    \/ \E c \in Callers : ReadElapsed(c)
    \/ \E c \in Callers : SleepReturns(c)
    \/ \E c \in Callers : UpdateTimestamp(c)
    \/ \E c \in Callers : ReleaseRateLock(c)
    \/ \E c \in Callers : IssueYahooRequest(c)
    \/ \E c \in Callers : AnalyzeTickerFetch(c)
    \/ Tick

-----------------------------------------------------------------------------
(* Provider resolver: _stooq_symbol, _stooq_history, _yahoo_history,      *)
(* get_daily_history.  A table (DataFrame) is the sequence of the dates  *)
(* of its rows, in the order the provider delivered them.                *)

Providers == {"auto", "yahoo", "stooq"}

\* a ticker by its shape: a leading "^" (index), a trailing ".US"
Tickers == {[name |-> "SPY",  caret |-> FALSE, us |-> FALSE],
            [name |-> "PANW", caret |-> FALSE, us |-> TRUE],
            [name |-> "VIX",  caret |-> TRUE,  us |-> FALSE]}

RowSeqs == UNION {[1..n -> 1..MaxDate] : n \in 1..MaxRows}

NoneDF == [kind |-> "none", rows |-> <<>>]
NotAsked == [kind |-> "not_asked", rows |-> <<>>]

\* what a provider can answer: an exception (network error, HTTP 429), None,
\* an empty table, or a table of rows in any order
Responses == {[kind |-> "error", rows |-> <<>>], NoneDF,
              [kind |-> "df", rows |-> <<>>]}
             \cup {[kind |-> "df", rows |-> r] : r \in RowSeqs}

\* `df is None or df.empty`
NoData_OnlyNone(df) == df.kind = "none"
NoData(df) == df.kind = "none" \/ df.rows = <<>>

\* insert date d into the ascending sequence s after the dates equal to it
RECURSIVE InsertSorted(_, _)
InsertSorted(s, d) ==
    IF s = <<>> THEN <<d>>
    ELSE IF d < Head(s) THEN <<d>> \o s
    ELSE <<Head(s)>> \o InsertSorted(Tail(s), d)

\* df.sort_index(): ascending by date, every row kept
RECURSIVE SortIndex(_)
SortIndex(rows) ==
    IF rows = <<>> THEN <<>>
    ELSE InsertSorted(SortIndex(SubSeq(rows, 1, Len(rows) - 1)), rows[Len(rows)])

\* _stooq_symbol: None for an index, else the ticker with ".US"
NoSymbol == [name |-> "None", caret |-> FALSE, us |-> FALSE]
_stooq_symbol(t) ==
    IF t.caret THEN NoSymbol
    ELSE IF t.us THEN t
    ELSE [t EXCEPT !.us = TRUE]

\* the request goes out whatever the shape of the symbol
StooqRequested_Always(t) == TRUE

\* _stooq_history: does it reach pdr.DataReader for this ticker?
StooqRequested(t) == _stooq_symbol(t) # NoSymbol

\* _stooq_history: None when there is no symbol, on an exception, on None or
\* an empty answer; else the answer sorted ascending
_stooq_history(t, resp) ==
    IF ~StooqRequested(t) THEN NoneDF
    ELSE IF resp.kind = "error" THEN NoneDF
    ELSE IF NoData(resp) THEN NoneDF
    ELSE [kind |-> "df", rows |-> SortIndex(resp.rows)]

\* _yahoo_history after the gate: the answer as delivered when it is a
\* non-empty table, else None (exceptions are swallowed)
_yahoo_history(resp) ==
    IF resp.kind = "error" THEN NoneDF
    ELSE IF resp.kind # "none" /\ resp.rows # <<>> THEN resp
    ELSE NoneDF

\* _respect_rate_limit as run by a single caller: wait out the remaining
\* delay, stamp, and let the request go out
RespectRateLimit(f) ==
    LET d == Delay(clock, _LAST_CALL_TS)
        t == IF d > 0 THEN clock + d ELSE clock
    IN  /\ t <= MaxClock
        /\ clock' = t
        /\ _LAST_CALL_TS' = t
        /\ prevStamp' = _LAST_CALL_TS
        /\ passes' = Min(passes + 1, 2)
        /\ requests' = requests \cup {[fn |-> f, gated |-> TRUE]}
        /\ UNCHANGED <<_RATE_LOCK, pc, fn, wakeAt, gated>>

\* get_daily_history: is _stooq_history called?  In stooq mode always, in
\* auto mode when Yahoo gave no data, in yahoo mode never
AskStooq_Fallback(ydf) == DATA_PROVIDER = "stooq" \/ NoData(ydf)
AskStooq(ydf) ==
    \/ DATA_PROVIDER = "stooq"
    \/ DATA_PROVIDER = "auto" /\ NoData(ydf)

\* get_daily_history(ticker) with the answers yresp, sresp the providers give
\* when they are asked
get_daily_history(t, yresp, sresp) ==
    LET askYahoo == DATA_PROVIDER \in {"yahoo", "auto"}
        ydf      == IF askYahoo THEN _yahoo_history(yresp) ELSE NoneDF
        askStooq == AskStooq(ydf)
        sdf      == IF askStooq THEN _stooq_history(t, sresp) ELSE NoneDF
        df       == IF askStooq THEN sdf ELSE ydf
    IN  /\ IF askYahoo
           THEN RespectRateLimit("_yahoo_history")
           ELSE UNCHANGED <<clock, gateVars>>
        /\ hist' = [called   |-> TRUE,
                    ticker   |-> t,
                    yahoo    |-> IF askYahoo THEN yresp ELSE NotAsked,
                    stooq    |-> IF askStooq /\ StooqRequested(t)
                                 THEN sresp ELSE NotAsked,
                    stooqCalled |-> askStooq,
                    raised   |-> NoData(df),
                    df       |-> IF NoData(df) THEN NoneDF ELSE df]
        /\ UNCHANGED <<DATA_PROVIDER, fileVars, marketVars, scoreVars, calcVars, screenVars>>

HistInit ==
    hist = [called |-> FALSE, ticker |-> NoSymbol, yahoo |-> NotAsked,
            stooq |-> NotAsked, stooqCalled |-> FALSE, raised |-> FALSE,
            df |-> NoneDF]

HistNext ==
    \E t \in Tickers, yresp \in Responses, sresp \in Responses :
        get_daily_history(t, yresp, sresp)

\* the answers that decide which provider is asked: an exception, None, an
\* empty table, a table of one row
ShortResponses == {r \in Responses : Len(r.rows) <= 1}

FetchHistory ==
    \E t \in Tickers, yresp \in ShortResponses, sresp \in ShortResponses :
        get_daily_history(t, yresp, sresp)


-----------------------------------------------------------------------------
(* File-backed cache: _get_cache_file, _get_cached_data, _set_cached_data *)

\* screener.py:70  age_hours = (...).total_seconds() / 3600
SecondsPerHour == 3600

\* cache keys; _get_cache_file gives each its own file (md5 of the key)
CacheKeys == {"actual_sp500_symbols"}

\* Python values handed to _set_cached_data, by type and items
PyValues == {[tag |-> "list",  items |-> <<1, 2>>],
             [tag |-> "tuple", items |-> <<1, 2>>],
             [tag |-> "set",   items |-> <<1, 2>>]}

NoValue == [tag |-> "None", items |-> <<>>]

\* json.dump: lists and tuples become arrays, dicts become objects whose keys
\* are strings; a set is not serializable (TypeError)
JsonSerializable(v) == v.tag \in {"list", "tuple", "dict_str", "dict_int", "None"}
JsonDump(v) ==
    CASE v.tag \in {"list", "tuple"}        -> [tag |-> "array",  items |-> v.items]
      [] v.tag \in {"dict_str", "dict_int"} -> [tag |-> "object", items |-> v.items]
      [] OTHER                              -> [tag |-> "null",   items |-> <<>>]

\* json.load: arrays become lists, objects become dicts with string keys
JsonLoad(j) ==
    CASE j.tag = "array"  -> [tag |-> "list",     items |-> j.items]
      [] j.tag = "object" -> [tag |-> "dict_str", items |-> j.items]
      [] OTHER            -> NoValue

\* what a cache file can hold: nothing (no file), an entry written by
\* _set_cached_data, or content that is no entry
NoFile == [kind |-> "absent", timestamp |-> 0, content |-> JsonDump(NoValue)]
Truncated == [kind |-> "truncated", timestamp |-> 0, content |-> JsonDump(NoValue)]
Entry(ts, j) == [kind |-> "entry", timestamp |-> ts, content |-> j]
DamagedKinds == {"truncated", "no_timestamp", "no_content"}

\* `age_hours < max_age_hours`
Fresh_Inclusive(age, max_age_hours) == age <= max_age_hours * SecondsPerHour
Fresh(age, max_age_hours) == age < max_age_hours * SecondsPerHour

\* the body of the try block of _get_cached_data: the exception it runs
\* into ("" when none) and the value it returns
ReadEntry(f, max_age_hours, ioError) ==
    IF ioError THEN [exc |-> "OSError", hit |-> FALSE, value |-> NoValue]
    ELSE IF f.kind = "truncated"
    THEN [exc |-> "JSONDecodeError", hit |-> FALSE, value |-> NoValue]
    ELSE IF f.kind = "no_timestamp"
    THEN [exc |-> "KeyError", hit |-> FALSE, value |-> NoValue]
    ELSE IF Fresh(clock - f.timestamp, max_age_hours)
    THEN IF f.kind = "no_content"
         THEN [exc |-> "KeyError", hit |-> FALSE, value |-> NoValue]
         ELSE [exc |-> "", hit |-> TRUE, value |-> JsonLoad(f.content)]
    ELSE [exc |-> "", hit |-> FALSE, value |-> NoValue]

\* `except Exception` catches every exception the try block can run into
ExceptionClasses == {"OSError", "JSONDecodeError", "KeyError", "ValueError", "TypeError"}

\* _get_cached_data(cache_key, max_age_hours)
_get_cached_data(k, max_age_hours, ioError) ==
    LET r == IF files[k].kind = "absent"
             THEN [exc |-> "", hit |-> FALSE, value |-> NoValue]
             ELSE ReadEntry(files[k], max_age_hours, ioError)
    IN  /\ fc' = [op |-> "get", key |-> k, max_age |-> max_age_hours,
                  at |-> clock, arg |-> NoValue, failed |-> r.exc # "",
                  exc |-> r.exc,
                  raised |-> r.exc \notin ExceptionClasses \cup {""},
                  hit |-> r.hit, value |-> r.value, entryLost |-> FALSE]
        /\ UNCHANGED <<files, lastSet>>

\* _set_cached_data(cache_key, data): open(cache_file, 'w') empties the file,
\* then json.dump writes the entry; fault is "open" when open fails, "write"
\* when a write fails
_set_cached_data(k, v, fault) ==
    LET exc == IF fault = "open" THEN "OSError"
               ELSE IF ~JsonSerializable(v) THEN "TypeError"
               ELSE IF fault = "write" THEN "OSError"
               ELSE ""
        f   == IF fault = "open" THEN files[k]
               ELSE IF exc # "" THEN Truncated
               ELSE Entry(clock, JsonDump(v))
    IN  /\ files' = [files EXCEPT ![k] = f]
        /\ lastSet' = [lastSet EXCEPT ![k] = [made |-> TRUE, value |-> v,
                                              at |-> clock, ok |-> exc = "",
                                              before |-> files[k]]]
        /\ fc' = [op |-> "set", key |-> k, max_age |-> 0,
                  at |-> clock, arg |-> v, failed |-> exc # "",
                  exc |-> exc,
                  raised |-> exc \notin ExceptionClasses \cup {""},
                  hit |-> FALSE, value |-> NoValue,
                  entryLost |-> files[k].kind = "entry" /\ f.kind # "entry"]

NeverSet == [made |-> FALSE, value |-> NoValue, at |-> 0, ok |-> FALSE,
             before |-> NoFile]

\* something else leaves the file of key k without a usable entry, or
\* removes it (CACHE_DIR is /tmp/stock_cache)
DamageFile(k, kind) ==
    /\ files[k].kind = "entry"
    /\ files' = [files EXCEPT ![k] =
                    IF kind = "absent" THEN NoFile
                    ELSE [files[k] EXCEPT !.kind = kind]]
    /\ lastSet' = [lastSet EXCEPT ![k] = NeverSet]
    /\ UNCHANGED fc

FileInit ==
    /\ files = [k \in CacheKeys |-> NoFile]
    /\ lastSet = [k \in CacheKeys |-> NeverSet]
    /\ fc = [op |-> "none", key |-> "", max_age |-> 0, at |-> 0, arg |-> NoValue,
             failed |-> FALSE, exc |-> "", raised |-> FALSE, hit |-> FALSE,
             value |-> NoValue, entryLost |-> FALSE]

\* half an hour passes
HalfHourPasses ==
    /\ clock + SecondsPerHour \div 2 <= MaxCacheHours * SecondsPerHour
    /\ clock' = clock + SecondsPerHour \div 2
    /\ UNCHANGED <<gateVars, histVars, fileVars, marketVars, scoreVars, calcVars, screenVars>>

FileNext ==
    \/ \E k \in CacheKeys, h \in 1..MaxAgeHours, e \in BOOLEAN :
          _get_cached_data(k, h, e) /\ UNCHANGED <<clock, gateVars, histVars, marketVars, scoreVars, calcVars, screenVars>>
    \/ \E k \in CacheKeys, v \in PyValues, fault \in {"", "open", "write"} :
          _set_cached_data(k, v, fault) /\ UNCHANGED <<clock, gateVars, histVars, marketVars, scoreVars, calcVars, screenVars>>
    \/ \E k \in CacheKeys, kind \in DamagedKinds \cup {"absent"} :
          DamageFile(k, kind) /\ UNCHANGED <<clock, gateVars, histVars, marketVars, scoreVars, calcVars, screenVars>>
    \/ HalfHourPasses


-----------------------------------------------------------------------------
(* Market context: _yahoo_download, get_market_context and _MARKET_CACHE  *)

\* what a provider can answer to a download of closes: an exception, None,
\* an empty table, or a table with a first and a last close
CloseResponses(firsts, lasts) ==
    {[kind |-> k, first |-> 0, last |-> 0] : k \in {"error", "none", "empty"}}
    \cup {[kind |-> "df", first |-> a, last |-> b] : a \in firsts, b \in lasts}

SpyResponses == CloseResponses({100}, {95, 100})
VixResponses == CloseResponses({20}, {15, 30})
NotDownloaded == [kind |-> "not_asked", first |-> 0, last |-> 0]

\* _yahoo_download / _stooq_history: the table when it is one with rows
HasRows(resp) == resp.kind = "df"

\* the time at which a caller arriving at t leaves _respect_rate_limit
GateExit(t, last) == IF Delay(t, last) > 0 THEN t + Delay(t, last) ELSE t

NoContext == [spy_30d_change |-> NoneV, vix_level |-> NoneV,
              market_sentiment |-> "None", created |-> 0]

\* spy_change = ((spy_current - spy_month_ago) / spy_month_ago) * 100, in tenths
SpyChange(spy) == ((spy.last - spy.first) * 1000) \div spy.first

\* "bearish" if spy_change < -3 else "bullish" if spy_change > 3 else "neutral"
Sentiment(change) ==
    IF change < -30 THEN "bearish" ELSE IF change > 30 THEN "bullish" ELSE "neutral"

\* `cached and (now - ts) < MARKET_CACHE_TTL`
CacheValid(t) ==
    _MARKET_CACHE.data # NoContext /\ t - _MARKET_CACHE.ts < MARKET_CACHE_TTL

\* what get_market_context returns when it cannot refresh: `return cached`
StaleFallback == _MARKET_CACHE.data

\* get_market_context() with the answers the providers give when asked
\* (boom: the computation on the SPY/VIX tables raises): the values it
\* leaves in the clock, the rate limiter and _MARKET_CACHE, the requests it
\* sends and what it returns
MarketOutcome(spyYahoo, spyStooq, vixYahoo, boom) ==
    LET t0       == clock
        askY     == DATA_PROVIDER # "stooq"
        t1       == IF askY THEN GateExit(t0, _LAST_CALL_TS) ELSE t0
        last1    == IF askY THEN t1 ELSE _LAST_CALL_TS
        spy      == IF DATA_PROVIDER = "stooq" THEN spyStooq
                    ELSE IF DATA_PROVIDER = "yahoo" THEN spyYahoo
                    ELSE IF HasRows(spyYahoo) THEN spyYahoo ELSE spyStooq
        askVix   == HasRows(spy) /\ ~boom /\ DATA_PROVIDER # "stooq"
        t2       == IF askVix THEN GateExit(t1, last1) ELSE t1
        last2    == IF askVix THEN t2 ELSE last1
        vix      == IF askVix /\ HasRows(vixYahoo) THEN vixYahoo.last * 10 ELSE NoneV
        data     == [spy_30d_change   |-> SpyChange(spy),
                     vix_level        |-> vix,
                     market_sentiment |-> Sentiment(SpyChange(spy)),
                     created          |-> t0]
        gates    == (IF askY THEN 1 ELSE 0) + (IF askVix THEN 1 ELSE 0)
        n        == mc.calls + 1
        same     == [clock |-> clock, last |-> _LAST_CALL_TS, prev |-> prevStamp,
                     passes |-> passes, requests |-> {}, cache |-> _MARKET_CACHE]
        tried    == [clock |-> t2, last |-> last2,
                     prev |-> IF gates = 2 THEN last1
                              ELSE IF gates = 1 THEN _LAST_CALL_TS ELSE prevStamp,
                     passes |-> Min(passes + gates, 2),
                     requests |-> IF askY
                                  THEN {[fn |-> "_yahoo_download", gated |-> TRUE]}
                                  ELSE {},
                     cache |-> _MARKET_CACHE]
    IN  IF ~ENABLE_MARKET_CONTEXT
        THEN [same EXCEPT !.clock = clock] @@
             [mc |-> [called |-> TRUE, calls |-> n, at |-> t0, path |-> "disabled",
                      result |-> NoContext, vixAsked |-> FALSE]]
        ELSE IF CacheValid(t0)
        THEN same @@
             [mc |-> [called |-> TRUE, calls |-> n, at |-> t0, path |-> "cached",
                      result |-> _MARKET_CACHE.data, vixAsked |-> FALSE]]
        ELSE IF ~HasRows(spy) \/ boom
        THEN tried @@
             [mc |-> [called |-> TRUE, calls |-> n, at |-> t0, path |-> "failed",
                      result |-> StaleFallback, vixAsked |-> askVix]]
        ELSE [tried EXCEPT !.cache = [data |-> data, ts |-> t0]] @@
             [mc |-> [called |-> TRUE, calls |-> n, at |-> t0, path |-> "fetched",
                      result |-> data, vixAsked |-> askVix]]

\* the call, made by itself
get_market_context(spyYahoo, spyStooq, vixYahoo, boom) ==
    LET o == MarketOutcome(spyYahoo, spyStooq, vixYahoo, boom)
    IN  /\ clock' = o.clock
        /\ _LAST_CALL_TS' = o.last
        /\ prevStamp' = o.prev
        /\ passes' = o.passes
        /\ requests' = requests \cup o.requests
        /\ _MARKET_CACHE' = o.cache
        /\ mc' = o.mc
        /\ UNCHANGED <<_RATE_LOCK, pc, fn, wakeAt, gated>>

MarketInit ==
    /\ _MARKET_CACHE = [data |-> NoContext, ts |-> 0]
    /\ mc = [called |-> FALSE, calls |-> 0, at |-> 0, path |-> "none", result |-> NoContext,
             vixAsked |-> FALSE]

\* half a cache lifetime passes
HalfTTLPasses ==
    /\ clock + MARKET_CACHE_TTL \div 2 <= MaxMarketSteps * (MARKET_CACHE_TTL \div 2)
    /\ clock' = clock + MARKET_CACHE_TTL \div 2
    /\ UNCHANGED <<gateVars, histVars, fileVars, marketVars, scoreVars, calcVars, screenVars>>

MarketNext ==
    \/ \E sy \in SpyResponses, ss \in SpyResponses, vy \in VixResponses, boom \in BOOLEAN :
          /\ mc.calls < MaxMarketCalls
          /\ get_market_context(IF DATA_PROVIDER = "stooq" THEN NotDownloaded ELSE sy,
                                IF DATA_PROVIDER = "yahoo" THEN NotDownloaded ELSE ss,
                                IF DATA_PROVIDER = "stooq" THEN NotDownloaded ELSE vy,
                                boom)
          /\ UNCHANGED <<histVars, fileVars, ENABLE_MARKET_CONTEXT, scoreVars, calcVars, screenVars>>
    \/ HalfTTLPasses


-----------------------------------------------------------------------------
(* Scoring: evaluate_strategy (app.py:185-392).  Readings in tenths,      *)
(* points in hundredths.  Each factor gives its points, its signal flag,  *)
(* the reason it appends, the signal-strength tag it appends ("" when     *)
(* none) and its quality label.                                           *)

\* metrics.get(key, default)
Get(m, key, default) == IF m[key] = Missing THEN default ELSE m[key]

Abs(x) == IF x < 0 THEN -x ELSE x

Factor(p, sig, reason, strength, quality) ==
    [pts |-> p, signal |-> sig, reason |-> reason, strength |-> strength,
     quality |-> quality]

\* 1. RSI scoring (app.py:211-245)
RsiFactor(current_rsi) ==
    IF current_rsi # NoneV
    THEN IF current_rsi <= 200
         THEN Factor(35, TRUE, "Extreme oversold RSI", "extreme oversold", "excellent")
         ELSE IF current_rsi <= 250
         THEN Factor(30, TRUE, "Strong oversold RSI", "strong oversold", "excellent")
         ELSE IF current_rsi <= 300
         THEN Factor(25, TRUE, "Oversold RSI", "oversold", "strong")
         ELSE IF current_rsi <= 350
         THEN Factor(15, FALSE, "Near oversold RSI", "", "moderate")
         ELSE IF current_rsi <= 400
         THEN Factor(5, FALSE, "Weak RSI", "", "fair")
         ELSE Factor(0, FALSE, "RSI not oversold", "", "poor")
    ELSE Factor(0, FALSE, "RSI unavailable", "", "unknown")

\* `vix_level >= 25` with vix_level None is a TypeError
VixComparable(vix_level) == vix_level # NoneV

\* 2. VIX scoring (app.py:247-268)
VixFactor(vix_level) ==
    IF vix_level >= 250
    THEN Factor(30, FALSE, "High fear VIX", "high volatility", "excellent")
    ELSE IF vix_level >= 200
    THEN Factor(25, FALSE, "Elevated VIX", "", "good")
    ELSE IF vix_level >= 180
    THEN Factor(20, FALSE, "Moderate VIX", "", "moderate")
    ELSE IF vix_level >= 160
    THEN Factor(10, FALSE, "Low-moderate VIX", "", "fair")
    ELSE Factor(5, FALSE, "Low VIX", "", "poor")

\* 3. drop magnitude scoring (app.py:270-318)
DropFactor(current_return, rolling_5d_drop, max_recent_drop) ==
    IF Abs(current_return) >= 80
    THEN Factor(30, TRUE, "Major single-day drop", "major selloff", "excellent")
    ELSE IF Abs(current_return) >= 50
    THEN Factor(25, TRUE, "Significant daily drop", "significant drop", "good")
    ELSE IF Abs(rolling_5d_drop) >= 100
    THEN Factor(28, TRUE, "Major 5-day decline", "major multi-day drop", "excellent")
    ELSE IF Abs(rolling_5d_drop) >= 70
    THEN Factor(23, TRUE, "Strong 5-day decline", "strong multi-day drop", "good")
    ELSE IF Abs(rolling_5d_drop) >= 50
    THEN Factor(18, TRUE, "Moderate 5-day decline", "", "moderate")
    ELSE IF Abs(max_recent_drop) >= 80
    THEN Factor(20, FALSE, "Recent major drop", "", "good")
    ELSE IF Abs(max_recent_drop) >= 50
    THEN Factor(15, FALSE, "Recent significant drop", "", "moderate")
    ELSE Factor(0, FALSE, "Minimal recent drop", "", "minimal")

\* 4. distance from low scoring (app.py:320-341)
LowFactor(distance_from_low) ==
    IF distance_from_low <= 10
    THEN Factor(20, FALSE, "At recent low", "perfect timing", "excellent")
    ELSE IF distance_from_low <= 30
    THEN Factor(18, FALSE, "Very near low", "excellent timing", "very good")
    ELSE IF distance_from_low <= 50
    THEN Factor(15, FALSE, "Near recent low", "", "good")
    ELSE IF distance_from_low <= 80
    THEN Factor(10, FALSE, "Moderate distance from low", "", "moderate")
    ELSE Factor(0, FALSE, "Far from recent low", "", "poor")

\* 5. trend analysis (app.py:343-365); the metric is the text "x.x%", read
\* back with float(price_vs_200ma.replace('%', ''))
TrendFactor_AbsentAsZero(price_vs_200ma) ==
    IF Abs(IF price_vs_200ma = NoneV THEN 0 ELSE price_vs_200ma) <= 50
    THEN Factor(15, FALSE, "Price near 200MA", "", "excellent")
    ELSE Factor(2, FALSE, "Price far below 200MA", "", "poor")
TrendFactor(price_vs_200ma) ==
    IF price_vs_200ma # NoneV
    THEN IF Abs(price_vs_200ma) <= 50
         THEN Factor(15, FALSE, "Price near 200MA", "", "excellent")
         ELSE IF price_vs_200ma >= -100 /\ price_vs_200ma < 0
         THEN Factor(12, FALSE, "Price below 200MA", "", "good")
         ELSE IF price_vs_200ma >= -150
         THEN Factor(8, FALSE, "Price well below 200MA", "", "moderate")
         ELSE Factor(2, FALSE, "Price far below 200MA", "", "poor")
    ELSE Factor(0, FALSE, "200MA data unavailable", "", "unknown")

\* 6. oversold persistence bonus (app.py:367-377); no reason when 0 days
PersistenceFactor(days_oversold) ==
    IF days_oversold >= 3
    THEN Factor(10, FALSE, "Extended oversold", "persistent oversold", "")
    ELSE IF days_oversold >= 2
    THEN Factor(8, FALSE, "Multi-day oversold", "", "")
    ELSE IF days_oversold >= 1
    THEN Factor(5, FALSE, "Recent oversold", "", "")
    ELSE Factor(0, FALSE, "", "", "")

NonEmpty(str) == IF str = "" THEN <<>> ELSE <<str>>

FirstN(seq, n) == SubSeq(seq, 1, Min(n, Len(seq)))

\* is_play = score >= 0.6 and (rsi_signal or drop_signal)
IsPlay_ScoreOnly(score, rsi_signal, drop_signal) == score >= 60
IsPlay(score, rsi_signal, drop_signal) == score >= 60 /\ (rsi_signal \/ drop_signal)

\* return ..., min(score, 1.0)
Clamp_None(score) == score
Clamp(score) == Min(score, 100)

NoEval == [done |-> FALSE, raised |-> FALSE, is_play |-> FALSE, score |-> 0,
           points |-> <<0, 0, 0, 0, 0, 0>>, rsi_signal |-> FALSE,
           drop_signal |-> FALSE, verdict |-> "", signals |-> <<>>,
           reasons |-> <<>>, quality |-> <<>>]

\* evaluate_strategy(metrics): the tuple it returns, or the TypeError it raises
evaluate_strategy(m) ==
    LET current_rsi       == Get(m, "RSI", NoneV)
        vix_level         == Get(m, "VIX", 200)
        current_return    == Get(m, "percent_drop", 0)
        rolling_5d_drop   == Get(m, "rolling_5d_drop", 0)
        rolling_10d_drop  == Get(m, "rolling_10d_drop", 0)
        max_recent_drop   == Get(m, "max_recent_drop", 0)
        days_oversold     == Get(m, "days_oversold", 0)
        distance_from_low == Get(m, "distance_from_low", 1000)
        price_vs_200ma    == Get(m, "price_vs_200ma", NoneV)
        f1 == RsiFactor(current_rsi)
        f2 == VixFactor(vix_level)
        f3 == DropFactor(current_return, rolling_5d_drop, max_recent_drop)
        f4 == LowFactor(distance_from_low)
        f5 == TrendFactor(price_vs_200ma)
        f6 == PersistenceFactor(days_oversold)
        score == 0 + f1.pts + f2.pts + f3.pts + f4.pts + f5.pts + f6.pts
        reasons == <<f1.reason, f2.reason, f3.reason, f4.reason, f5.reason>>
                   \o NonEmpty(f6.reason)
        signal_strength == NonEmpty(f1.strength) \o NonEmpty(f2.strength)
                           \o NonEmpty(f3.strength) \o NonEmpty(f4.strength)
                           \o NonEmpty(f6.strength)
        is_play == IsPlay(score, f1.signal, f3.signal)
        main_signals == IF signal_strength # <<>> THEN FirstN(signal_strength, 3)
                        ELSE <<"weak setup">>
    IN  IF ~VixComparable(vix_level)
        THEN [NoEval EXCEPT !.done = TRUE, !.raised = TRUE]
        ELSE [done        |-> TRUE,
              raised      |-> FALSE,
              is_play     |-> is_play,
              score       |-> Clamp(score),
              points      |-> <<f1.pts, f2.pts, f3.pts, f4.pts, f5.pts, f6.pts>>,
              rsi_signal  |-> f1.signal,
              drop_signal |-> f3.signal,
              verdict     |-> IF is_play THEN "PLAY" ELSE "PASS",
              signals     |-> IF is_play THEN main_signals ELSE <<>>,
              reasons     |-> FirstN(reasons, 6),
              quality     |-> IF is_play
                              THEN <<f1.quality, f2.quality, f3.quality,
                                     f4.quality, f5.quality>>
                              ELSE <<>>]

\* readings a snapshot can carry (tenths); VIX may also be a missing key
RsiReadings == {NoneV, 100, 250, 300, 350, 500}
VixReadings == {Missing, NoneV, 150, 180, 200, 300}
ReturnReadings == {-100, -90, -50, 0, 60}
Drop5dReadings == {-120, -70, -60, 0, 60}
Drop10dReadings == {-60, 0}
MaxDropReadings == {-80, 0}
LowReadings == {0, 5, 30, 90}
TrendReadings == {NoneV, 0, 10, -120}
DaysReadings == {0, 2, 5}

Snapshots ==
    [RSI : RsiReadings, VIX : VixReadings, percent_drop : ReturnReadings,
     rolling_5d_drop : Drop5dReadings, rolling_10d_drop : Drop10dReadings,
     max_recent_drop : MaxDropReadings, distance_from_low : LowReadings,
     price_vs_200ma : TrendReadings, days_oversold : DaysReadings]

NoMetrics ==
    [RSI |-> Missing, VIX |-> Missing, percent_drop |-> Missing,
     rolling_5d_drop |-> Missing, rolling_10d_drop |-> Missing,
     max_recent_drop |-> Missing, distance_from_low |-> Missing,
     price_vs_200ma |-> Missing, days_oversold |-> Missing]

\* the caller hands the snapshot to evaluate_strategy (app.py:562)
EvaluateStrategy ==
    /\ metrics # NoMetrics
    /\ ~ev.done
    /\ ev' = evaluate_strategy(metrics)
    /\ UNCHANGED <<clock, gateVars, histVars, fileVars, marketVars, metrics,
                   readings, dip, calcVars, screenVars>>

\* round(x, 1) and f"{x:.1f}": hundredths to tenths, a tie to the even tenth
Round1(h) ==
    LET q == h \div 10
        r == h % 10
    IN  IF r < 5 THEN q
        ELSE IF r > 5 THEN q + 1
        ELSE IF q % 2 = 0 THEN q ELSE q + 1

\* `round(x, 1) if x else None`: None and 0 are both falsy
RoundIfTruthy(h) == IF h = NoneV \/ h = 0 THEN NoneV ELSE Round1(h)

\* readings analyze_ticker computes from the history (hundredths)
RawReadings ==
    [rsi : {NoneV, 0, 1804}, ret : {-904, 12}, drop5d : {-904},
     drop10d : {-904}, maxdrop : {-904}, low : {48}, trend : {NoneV, -496},
     days : {3}]

\* before analyze_ticker has computed anything
NoReadings ==
    [rsi |-> Missing, ret |-> Missing, drop5d |-> Missing, drop10d |-> Missing,
     maxdrop |-> Missing, low |-> Missing, trend |-> Missing, days |-> Missing]

\* analyze_ticker(ticker) (app.py:35-183): the history and quote requests go
\* to Yahoo, the readings are computed, get_market_context() is called and
\* the metrics are compiled; an empty history ends it with an error dict
analyze_ticker(hasData, r, spyYahoo, spyStooq, vixYahoo, boom) ==
    LET o == MarketOutcome(spyYahoo, spyStooq, vixYahoo, boom)
        market_context == o.mc.result
        vix_level == IF market_context # NoContext
                     THEN market_context.vix_level ELSE NoneV
        mine == {[fn |-> "analyze_ticker", gated |-> FALSE]}
    IN  IF ~hasData
        THEN /\ requests' = requests \cup mine
             /\ metrics' = NoMetrics
             /\ ev' = NoEval
             /\ readings' = NoReadings
             /\ UNCHANGED <<clock, _LAST_CALL_TS, prevStamp, passes,
                            _MARKET_CACHE, mc>>
        ELSE /\ requests' = requests \cup mine \cup o.requests
             /\ clock' = o.clock
             /\ _LAST_CALL_TS' = o.last
             /\ prevStamp' = o.prev
             /\ passes' = o.passes
             /\ _MARKET_CACHE' = o.cache
             /\ mc' = o.mc
             /\ metrics' = [RSI               |-> RoundIfTruthy(r.rsi),
                            VIX               |-> IF vix_level = NoneV
                                                  THEN NoneV
                                                  ELSE RoundIfTruthy(vix_level * 10),
                            percent_drop      |-> Round1(r.ret),
                            rolling_5d_drop   |-> Round1(r.drop5d),
                            rolling_10d_drop  |-> Round1(r.drop10d),
                            max_recent_drop   |-> Round1(r.maxdrop),
                            days_oversold     |-> r.days,
                            distance_from_low |-> Round1(r.low),
                            price_vs_200ma    |-> IF r.trend # NoneV
                                                  THEN Round1(r.trend) ELSE NoneV]
             /\ ev' = NoEval
             /\ readings' = r

\* with the answers that make a difference to it
AnalyzeTicker ==
    \E hasData \in BOOLEAN, r \in RawReadings,
       sy \in {x \in SpyResponses : x.kind = "error" \/ x.last = 95},
       ss \in {x \in SpyResponses : x.kind = "error" \/ x.last = 95},
       vy \in {x \in VixResponses : x.kind \in {"error", "df"}} :
        /\ mc.calls < MaxMarketCalls
        /\ analyze_ticker(hasData, r, sy, ss, vy, FALSE)
        /\ UNCHANGED <<_RATE_LOCK, pc, fn, wakeAt, gated, histVars, fileVars,
                       ENABLE_MARKET_CONTEXT, dip, calcVars, screenVars>>

\* what the client of an endpoint receives: a response (status 200) or the
\* HTTPException raised to the framework (its status code and detail)
NoDip == [called |-> FALSE, status |-> 0, detail |-> "", play |-> FALSE,
          tier |-> "none", confidence_score |-> 0]
Respond(is_play, tier, confidence_score) ==
    [called |-> TRUE, status |-> 200, detail |-> "", play |-> is_play,
     tier |-> tier, confidence_score |-> confidence_score]
RaiseHTTP(status_code, detail) ==
    [called |-> TRUE, status |-> status_code, detail |-> detail, play |-> FALSE,
     tier |-> "none", confidence_score |-> 0]

ScoreInit ==
    /\ metrics = NoMetrics
    /\ ev = NoEval
    /\ readings = NoReadings
    /\ dip = NoDip

ScoreNext == EvaluateStrategy

AnalyzeNext ==
    \/ AnalyzeTicker
    \/ EvaluateStrategy
    \/ HalfTTLPasses


\* get_market_context() with the answers that decide what it requests: each
\* provider fails or delivers a table
AskMarketContext ==
    \E sy \in {x \in SpyResponses : x.kind = "error" \/ x.last = 95},
       ss \in {x \in SpyResponses : x.kind = "error" \/ x.last = 95},
       vy \in {x \in VixResponses : x.kind = "error" \/ x.last = 30} :
        /\ mc.calls < MaxMarketCalls
        /\ get_market_context(IF DATA_PROVIDER = "stooq" THEN NotDownloaded ELSE sy,
                              IF DATA_PROVIDER = "yahoo" THEN NotDownloaded ELSE ss,
                              IF DATA_PROVIDER = "stooq" THEN NotDownloaded ELSE vy,
                              FALSE)
        /\ UNCHANGED <<histVars, fileVars, ENABLE_MARKET_CONTEXT, scoreVars,
                       calcVars, screenVars>>

\* histories and the market context, asked for by one caller
ProvidersNext ==
    \/ FetchHistory
    \/ AskMarketContext
    \/ HalfTTLPasses

-----------------------------------------------------------------------------
(* Tiering: classify_tier (app.py:394-415).  Confidence in units of      *)
(* 0.00001, credit in cents.                                              *)

\* `estimated_credit and ...`: None and 0 are falsy
Truthy(x) == x # NoneV /\ x # 0

\* `confidence_score >= 0.8 and estimated_credit and estimated_credit >= 100`
TierA_Exclusive(confidence_score, estimated_credit) ==
    /\ confidence_score > 80000
    /\ Truthy(estimated_credit)
    /\ estimated_credit >= 10000
TierA(confidence_score, estimated_credit) ==
    /\ confidence_score >= 80000
    /\ Truthy(estimated_credit)
    /\ estimated_credit >= 10000

\* `confidence_score >= 0.7 and estimated_credit and 80 <= estimated_credit < 100`
TierB(confidence_score, estimated_credit) ==
    /\ confidence_score >= 70000
    /\ Truthy(estimated_credit)
    /\ 8000 <= estimated_credit /\ estimated_credit < 10000

\* `confidence_score >= 0.6`
TierC_Above(confidence_score) == confidence_score > 60000
TierC(confidence_score) == confidence_score >= 60000

classify_tier(confidence_score, estimated_credit, is_play) ==
    IF ~is_play THEN "PASS"
    ELSE IF TierA(confidence_score, estimated_credit) THEN "A"
    ELSE IF TierB(confidence_score, estimated_credit) THEN "B"
    ELSE IF TierC(confidence_score) THEN "C"
    ELSE "PASS"

\* check_dip hands the score evaluate_strategy returned to classify_tier as
\* confidence_score (app.py:562, 570-571); hundredths to units of 0.00001
ConfidenceOf(score) == score * 1000

\* arguments around the thresholds
Confidences == {0, 59999, 60000, 69999, 70000, 79999, 80000, 100000}
Credits == {NoneV, 0, 7999, 8000, 9999, 10000, 15000}

TierCalls ==
    [called : {FALSE}, confidence_score : Confidences,
     estimated_credit : Credits, is_play : BOOLEAN, tier : {"none"}]

TierIdle ==
    tq = [called |-> FALSE, confidence_score |-> 0, estimated_credit |-> NoneV,
          is_play |-> FALSE, tier |-> "none"]

ClassifyTier ==
    /\ ~tq.called
    /\ tq' = [tq EXCEPT !.called = TRUE,
                        !.tier = classify_tier(tq.confidence_score,
                                               tq.estimated_credit, tq.is_play)]
    /\ UNCHANGED <<clock, gateVars, histVars, fileVars, marketVars, scoreVars,
                   rsi, dov, pdrop, screenVars>>

TierNext == ClassifyTier

-----------------------------------------------------------------------------
(* The /check-dip endpoint: check_dip (app.py:549-614) *)

\* the classes `except Exception` catches: HTTPException derives from
\* Exception, as do the errors of the calculations
CaughtByExceptException == ExceptionClasses \cup {"HTTPException", "RuntimeError"}

\* the try block of check_dip (app.py:554-610) on the dict analyze_ticker
\* returned and the credit estimate_bull_put_credit gives: the exception it
\* raises ("" when none) and what it returns or raises
CheckDipBody(m, estimated_credit) ==
    IF m = NoMetrics
    THEN [exc |-> "HTTPException", out |-> RaiseHTTP(400, "No data available")]
    ELSE LET e == evaluate_strategy(m)
         IN  IF e.raised
             THEN [exc |-> "TypeError", out |-> NoDip]
             ELSE [exc |-> "",
                   out |-> Respond(e.is_play,
                                   classify_tier(ConfidenceOf(e.score),
                                                 estimated_credit, e.is_play),
                                   e.score)]

\* check_dip: `except Exception as e: raise HTTPException(status_code=500, ...)`
\* (app.py:612-614) around the whole body
check_dip(m, estimated_credit) ==
    LET body == CheckDipBody(m, estimated_credit)
    IN  IF body.exc = "" THEN body.out
        ELSE IF body.exc \in CaughtByExceptException
        THEN RaiseHTTP(500, "Error processing")
        ELSE body.out

\* estimate_bull_put_credit returns round(max(estimated_credit, 80), 2), or
\* 100.0 from its except branch (options.py:48-51); cents
CreditEstimates == {8000, 10000}

\* one request to /check-dip
CheckDip ==
    \E hasData \in BOOLEAN, r \in RawReadings,
       sy \in {x \in SpyResponses : x.kind = "error" \/ x.last = 95},
       vy \in {x \in VixResponses : x.kind \in {"error", "df"}},
       estimated_credit \in CreditEstimates :
        /\ mc.calls < MaxMarketCalls
        /\ analyze_ticker(hasData, r, sy, sy, vy, FALSE)
        /\ dip' = check_dip(metrics', estimated_credit)
        /\ UNCHANGED <<_RATE_LOCK, pc, fn, wakeAt, gated, histVars, fileVars,
                       ENABLE_MARKET_CONTEXT, calcVars, screenVars>>

DipNext ==
    \/ CheckDip
    \/ HalfTTLPasses

-----------------------------------------------------------------------------
(* RSI: calculate_rsi (indicators.py:168-189) and the days-oversold loop  *)
(* of analyze_ticker (app.py:134-146).  Prices are whole numbers; the two *)
(* exponential averages are kept as exact integers on a common scale      *)
(* (avg * window^(t-1)), so their ratio is exact; RSI in hundredths.      *)

RECURSIVE Pow(_, _)
Pow(b, e) == IF e <= 0 THEN 1 ELSE b * Pow(b, e - 1)

\* delta = series.diff(); gain = delta.where(delta > 0, 0.0): the first
\* delta is NaN and counts as 0
Gain(series, t) ==
    IF t >= 2 /\ series[t] > series[t - 1] THEN series[t] - series[t - 1] ELSE 0

\* loss = -delta.where(delta < 0, 0.0)
Loss(series, t) ==
    IF t >= 2 /\ series[t] < series[t - 1] THEN series[t - 1] - series[t] ELSE 0

\* .ewm(alpha=1/window, adjust=False).mean() at row t, times window^(t-1):
\* y_1 = x_1, y_t = (1 - 1/window) * y_(t-1) + x_t / window
RECURSIVE AvgGain(_, _, _)
AvgGain(series, window, t) ==
    IF t <= 1 THEN 0
    ELSE (window - 1) * AvgGain(series, window, t - 1)
         + Gain(series, t) * Pow(window, t - 2)

RECURSIVE AvgLoss(_, _, _)
AvgLoss(series, window, t) ==
    IF t <= 1 THEN 0
    ELSE (window - 1) * AvgLoss(series, window, t - 1)
         + Loss(series, t) * Pow(window, t - 2)

\* `len(series) < window + 1`
TooShort_Window(series, window) == Len(series) < window
TooShort(series, window) == Len(series) < window + 1

\* rs = avg_gain / avg_loss; rsi = 100 - (100 / (1 + rs)); last = rsi.iloc[-1]
\* Floating-point division does not fault: x/0 is inf for x > 0 and gives
\* rsi = 100, 0/0 is NaN.  `float(last) if not pd.isna(last) else None`
LastRsi(series, window) ==
    LET g == AvgGain(series, window, Len(series))
        l == AvgLoss(series, window, Len(series))
    IN  IF l = 0
        THEN IF g = 0 THEN NoneV ELSE 10000
        ELSE (10000 * g) \div (g + l)

\* calculate_rsi(prices, window): the exception the try block runs into
\* ("" when none) and the value returned; `except Exception` returns None
calculate_rsi(iterable, prices, window) ==
    IF ~iterable THEN [exc |-> "TypeError", value |-> NoneV]
    ELSE IF TooShort(prices, window) THEN [exc |-> "", value |-> NoneV]
    ELSE [exc |-> "", value |-> LastRsi(prices, window)]

\* closing prices
Prices == {1, 2, 3}

SeriesUpTo(n) == UNION {[1..k -> Prices] : k \in 0..n}

RsiCalls ==
    [done : {FALSE}, raised : {FALSE}, iterable : BOOLEAN,
     prices : SeriesUpTo(MaxSeries), window : 1..MaxWindow,
     exc : {""}, result : {NoneV}]

RsiIdle ==
    rsi = [done |-> FALSE, raised |-> FALSE, iterable |-> TRUE, prices |-> <<>>,
           window |-> 1, exc |-> "", result |-> NoneV]

CalculateRsi ==
    /\ ~rsi.done
    /\ LET r == calculate_rsi(rsi.iterable, rsi.prices, rsi.window)
       IN  rsi' = [rsi EXCEPT !.done = TRUE,
                              !.exc = r.exc,
                              !.raised = r.exc \notin ExceptionClasses \cup {""},
                              !.result = r.value]
    /\ UNCHANGED <<clock, gateVars, histVars, fileVars, marketVars, scoreVars,
                   tq, dov, pdrop, screenVars>>

RsiNext == CalculateRsi

\* `if rsi_val and rsi_val < 30`: None and 0.0 are falsy
Oversold(rsi_val) == rsi_val # NoneV /\ rsi_val # 0 /\ rsi_val < 3000

\* app.py:138-146: the i-th pass of the loop and the passes after it
RECURSIVE CountOversold(_, _)
CountOversold(closes, i) ==
    IF i >= Min(DaysChecked, Len(closes) - RsiPeriod) THEN 0
    ELSE LET end_idx  == Len(closes) - i
             rsi_data == SubSeq(closes, 1, end_idx)
             rsi_val  == calculate_rsi(TRUE, rsi_data, RsiPeriod).value
         IN  IF Oversold(rsi_val) THEN 1 + CountOversold(closes, i + 1)
             ELSE 0

\* app.py:135-146
DaysOversold(closes) ==
    IF Len(closes) >= RsiPeriod THEN CountOversold(closes, 0) ELSE 0

OversoldIdle == dov = [done |-> FALSE, closes |-> <<>>, days_oversold |-> 0]

OversoldCalls ==
    [done : {FALSE}, closes : SeriesUpTo(RsiPeriod + DaysChecked + 1),
     days_oversold : {0}]

CountDaysOversold ==
    /\ ~dov.done
    /\ dov' = [dov EXCEPT !.done = TRUE,
                          !.days_oversold = DaysOversold(dov.closes)]
    /\ UNCHANGED <<clock, gateVars, histVars, fileVars, marketVars, scoreVars,
                   tq, rsi, pdrop, screenVars>>

OversoldNext == CountDaysOversold

-----------------------------------------------------------------------------
(* Decline measure: the loop body of screen_stocks (screener.py:374-423)   *)
(* and calculate_period_drop (screener.py:700-744).  A table is a sequence *)
(* of daily bars, oldest first; percentages in hundredths of a percent.    *)

\* ((a - b) / b) * 100
Pct(a, b) == ((a - b) * 10000) \div b

\* the bars a provider delivers
Bars == [High : {9, 10}, Close : {8, 10}]

Tables == UNION {[1..k -> Bars] : k \in 0..MaxBars}

\* df.tail(n)
TailRows(df, n) == SubSeq(df, Len(df) - Min(n, Len(df)) + 1, Len(df))

\* period_df['High'].max()
RECURSIVE MaxHigh(_)
MaxHigh(rows) ==
    IF Len(rows) = 1 THEN rows[1].High
    ELSE Max(rows[1].High, MaxHigh(SubSeq(rows, 2, Len(rows))))

\* period_df['Close'].pct_change().dropna().min() * 100, from row t on
RECURSIVE MinReturn(_, _)
MinReturn(rows, t) ==
    LET r == Pct(rows[t].Close, rows[t - 1].Close)
    IN  IF t = Len(rows) THEN r ELSE Min(r, MinReturn(rows, t + 1))

\* `daily_returns.min() * 100 if not daily_returns.empty else 0`
BiggestDailyDrop(rows) == IF Len(rows) >= 2 THEN MinReturn(rows, 2) ELSE 0

DropFromHigh(rows, current_price) == Pct(current_price, MaxHigh(rows))

DropFromStart(rows, current_price) == Pct(current_price, rows[1].Close)

NoMeasure == [skipped |-> TRUE, value |-> 0]
Measure(v) == [skipped |-> FALSE, value |-> v]

\* screen_stocks, screener.py:374-423: inPeriod is the number of rows that
\* filter_by_date_range keeps (the latest ones); an instrument without
\* data, or without a row in the period, is skipped
BatchDecline(df, inPeriod) ==
    IF Len(df) = 0 THEN NoMeasure
    ELSE LET period_df == TailRows(df, inPeriod)
             current_price == df[Len(df)].Close
         IN  IF Len(period_df) = 0 THEN NoMeasure
             ELSE IF Len(period_df) < 2
             THEN IF Len(df) >= 2
                  THEN Measure(Pct(current_price, df[Len(df) - 1].Close))
                  ELSE NoMeasure
             ELSE Measure(Min(BiggestDailyDrop(period_df),
                              DropFromHigh(period_df, current_price)))

\* the periods the endpoints accept (get_date_range, screener.py:240-261)
Periods == {"today", "1d", "3d", "1w", "2w", "1m", "3m", "ytd"}

\* screener.py:709-721
LookbackDays(period) ==
    CASE period \in {"today", "1d"} -> 1
      [] period = "3d" -> 3
      [] period = "1w" -> 7
      [] period = "2w" -> 14
      [] period = "1m" -> 30
      [] OTHER -> 7

\* period_data = df.tail(min(lookback_days + 1, len(df)))
PeriodData(df, period) == TailRows(df, Min(LookbackDays(period) + 1, Len(df)))

\* calculate_period_drop(df, period)
calculate_period_drop(df, period) ==
    IF Len(df) < 2 THEN Measure(0)
    ELSE LET current_price == df[Len(df)].Close
             period_data == PeriodData(df, period)
         IN  IF Len(period_data) < 2
             THEN Measure(Pct(current_price, df[Len(df) - 1].Close))
             ELSE Measure(Min(DropFromHigh(period_data, current_price),
                              Min(BiggestDailyDrop(period_data),
                                  DropFromStart(period_data, current_price))))

\* histories longer than a week's window and longer than a month's: flat
\* but for one close, `age` rows before the latest one
LongTable(n, age) ==
    [i \in 1..n |-> [High |-> 10, Close |-> IF i = n - age THEN 8 ELSE 10]]

LongTables ==
    {LongTable(n, age) : n \in {LookbackDays("1w") + 2, LookbackDays("1m") + 2},
                         age \in {0, LookbackDays("1w") + 1}}

DeclineCalls ==
    {c \in [done : {FALSE}, mode : {"batch", "stream"},
            df : Tables \cup LongTables,
            inPeriod : 0..MaxBars, period : Periods,
            skipped : {FALSE}, value : {0}] :
        /\ c.inPeriod <= Len(c.df)
        /\ c.mode = "batch" => c.period = "1w"
        /\ c.mode = "stream" => c.inPeriod = 0}

DeclineIdle ==
    pdrop = [done |-> FALSE, mode |-> "batch", df |-> <<>>, inPeriod |-> 0,
             period |-> "1w", skipped |-> FALSE, value |-> 0]

\* batch mode measures one instrument
ScreenStocksDecline ==
    /\ ~pdrop.done
    /\ pdrop.mode = "batch"
    /\ LET m == BatchDecline(pdrop.df, pdrop.inPeriod)
       IN  pdrop' = [pdrop EXCEPT !.done = TRUE, !.skipped = m.skipped,
                                  !.value = m.value]
    /\ UNCHANGED <<clock, gateVars, histVars, fileVars, marketVars, scoreVars,
                   tq, rsi, dov, screenVars>>

\* streaming mode measures one instrument
CalculatePeriodDrop ==
    /\ ~pdrop.done
    /\ pdrop.mode = "stream"
    /\ LET m == calculate_period_drop(pdrop.df, pdrop.period)
       IN  pdrop' = [pdrop EXCEPT !.done = TRUE, !.skipped = m.skipped,
                                  !.value = m.value]
    /\ UNCHANGED <<clock, gateVars, histVars, fileVars, marketVars, scoreVars,
                   tq, rsi, dov, screenVars>>

DeclineNext ==
    \/ ScreenStocksDecline
    \/ CalculatePeriodDrop

-----------------------------------------------------------------------------
(* Batch screener: get_sp500_symbols, get_screening_batch, screen_stocks  *)
(* (screener.py:103-196, 288-523).  A symbol list is the symbols 1..n and *)
(* is written by its length n; RSI is computed with RsiPeriod.            *)

\* screener.py:25  API_TIER = os.getenv("ALPHA_VANTAGE_TIER", "premium").lower()
API_TIER == "premium"

\* screener.py:38  SP500_CACHE_HOURS = 24
SP500_CACHE_HOURS == 24

\* screener.py:39  SCREEN_CACHE_HOURS = 1
SCREEN_CACHE_HOURS == 1

\* screener.py:203-226: the static list has 107 symbols
LARGE_CAP_TICKERS == 107

\* data/sp500_companies.json: the companies of the index
Sp500Companies == 503

SymbolList(n) == [tag |-> "list", items |-> <<n>>]

\* `if cached_symbols:` / `if cached_results:`: None and empty are falsy
TruthyValue(v) == v.tag # "None" /\ v.items # <<>>

\* _get_cached_data(cache_key, max_age_hours) on file f, as a function
CachedData(f, max_age_hours) ==
    IF f.kind = "absent" THEN NoValue
    ELSE ReadEntry(f, max_age_hours, FALSE).value

\* get_sp500_symbols(): the cached list, else the JSON file's list, else
\* (the file cannot be loaded) the static list; `cached` tells which
get_sp500_symbols(jsonOk) ==
    LET cached_symbols == CachedData(files["actual_sp500_symbols"], SP500_CACHE_HOURS)
    IN  IF TruthyValue(cached_symbols)
        THEN [symbols |-> cached_symbols.items[1], load |-> "cache"]
        ELSE IF jsonOk
        THEN [symbols |-> Sp500Companies, load |-> "json"]
        ELSE [symbols |-> LARGE_CAP_TICKERS, load |-> "static"]

\* get_screening_batch(all_symbols, max_stocks): the length of the batch,
\* which is all_symbols[:effective_limit] on the premium tier and today's
\* slice of max_stocks symbols on the free tier
ScreeningBatch(tier, all_symbols, max_stocks, day_of_year) ==
    IF all_symbols = 0 THEN [first |-> 1, last |-> 0]
    ELSE IF tier = "premium"
    THEN IF max_stocks < 50
         THEN [first |-> 1, last |-> Min(100, all_symbols)]
         ELSE [first |-> 1, last |-> Min(max_stocks, all_symbols)]
    ELSE LET total_batches == (all_symbols + max_stocks - 1) \div max_stocks
             batch_index == day_of_year % total_batches
             start_idx == batch_index * max_stocks
         IN  [first |-> start_idx + 1,
              last |-> Min(start_idx + max_stocks, all_symbols)]

\* datetime.now().date().timetuple().tm_yday: 1 on 1 January, 365 or 366 on
\* 31 December; the clock starts on 1 January of a common year
DaysInYear(leap) == IF leap THEN 366 ELSE 365
DayOfYear == 1 + (((clock \div SecondsPerHour) \div 24) % DaysInYear(FALSE))

get_screening_batch(all_symbols, max_stocks) ==
    ScreeningBatch(API_TIER, all_symbols, max_stocks, DayOfYear)

\* the free tier (ALPHA_VANTAGE_TIER=free) calling get_screening_batch once a
\* day on the same universe: today's batch is recorded, then the day ends
RotationIdle ==
    rot = [all_symbols |-> 0, max_stocks |-> 0, day_of_year |-> 0,
           leap |-> FALSE, batches |-> <<>>]

Rotations ==
    {[all_symbols |-> n, max_stocks |-> m, day_of_year |-> d, leap |-> l,
      batches |-> <<>>] :
        n \in 1..MaxUniverse, m \in 1..MaxUniverse, d \in 1..DaysInYear(FALSE),
        l \in BOOLEAN}
    \cup {[all_symbols |-> n, max_stocks |-> m, day_of_year |-> DaysInYear(TRUE),
           leap |-> TRUE, batches |-> <<>>] :
              n \in 1..MaxUniverse, m \in 1..MaxUniverse}

ScreenToday ==
    /\ rot.all_symbols > 0
    /\ Len(rot.batches) < MaxRotationDays
    /\ rot' = [rot EXCEPT
                  !.batches = @ \o <<ScreeningBatch("free", rot.all_symbols,
                                                    rot.max_stocks, rot.day_of_year)>>,
                  !.day_of_year = IF @ = DaysInYear(rot.leap) THEN 1 ELSE @ + 1,
                  !.leap = IF rot.day_of_year = DaysInYear(rot.leap)
                           THEN FALSE ELSE @]
    /\ UNCHANGED <<clock, gateVars, histVars, fileVars, marketVars, scoreVars,
                   calcVars, screenFiles, scan, loop, stream, cmp>>

RotationNext == ScreenToday

\* the symbols whose history can show a decline, and the closes of each
\* when it does: 6%, 10% and 8% below a flat 100
DipSymbols == {1, 3, 101}
DipClose(ticker) == CASE ticker = 1 -> 94 [] ticker = 3 -> 90 [] OTHER -> 92

Bar(h, c) == [High |-> h, Close |-> c]

\* _alpha_vantage_history(ticker, days=90) while the symbols in dippers
\* have declined
History(ticker, dippers) ==
    [t \in 1..(RsiPeriod + 2) |->
        Bar(100, IF t = RsiPeriod + 2 /\ ticker \in dippers
                 THEN DipClose(ticker) ELSE 100)]

Closes(df) == [t \in 1..Len(df) |-> df[t].Close]

\* screener.py:363-474, one instrument: the result it adds, if any
ScreenOne(ticker, dippers, max_rsi, min_daily_drop) ==
    LET df == History(ticker, dippers)
        m == BatchDecline(df, Len(df))
        r == calculate_rsi(TRUE, Closes(df), RsiPeriod).value
        current_rsi == IF r = NoneV THEN 5000 ELSE r
    IN  IF m.skipped THEN <<>>
        ELSE IF m.value > -min_daily_drop THEN <<>>
        ELSE IF current_rsi > max_rsi THEN <<>>
        ELSE <<[ticker |-> ticker, daily_change_pct |-> m.value]>>

\* screener.py:359-480: the loop from symbol `ticker` of the batch on.  The
\* symbols before the next one in dippers are examined one after the other
\* and add no result (their history is flat), so they are counted at once
RECURSIVE ScreenLoop(_, _, _, _, _, _)
ScreenLoop(ticker, last, results, total_checked, max_results, dippers) ==
    IF ticker > last \/ Len(results) >= max_results
    THEN [results |-> results, total_checked |-> total_checked]
    ELSE LET ahead == {d \in dippers : ticker <= d /\ d <= last}
             next == IF ahead = {} THEN last + 1
                     ELSE CHOOSE d \in ahead : \A e \in ahead : d <= e
         IN  IF next > last
             THEN [results |-> results,
                   total_checked |-> total_checked + (last - ticker + 1)]
             ELSE ScreenLoop(next + 1, last,
                             results \o ScreenOne(next, dippers, 4000, 500),
                             total_checked + (next - ticker + 1),
                             max_results, dippers)

\* results.sort(key=lambda x: x['daily_change_pct']): stable, ascending
RECURSIVE InsertByChange(_, _)
InsertByChange(sorted, x) ==
    IF sorted = <<>> THEN <<x>>
    ELSE IF Head(sorted).daily_change_pct <= x.daily_change_pct
    THEN <<Head(sorted)>> \o InsertByChange(Tail(sorted), x)
    ELSE <<x>> \o sorted

RECURSIVE SortByChange(_)
SortByChange(results) ==
    IF results = <<>> THEN <<>>
    ELSE InsertByChange(SortByChange(SubSeq(results, 1, Len(results) - 1)),
                        results[Len(results)])

\* cache_params (screener.py:319-327): the parameters the cache key is
\* made of, the other filters at their defaults; the key is their md5
ScreenKey(date) ==
    [min_market_cap |-> 10, max_rsi |-> 4000, min_daily_drop |-> 500,
     period |-> "1w", date |-> date]

ScreenKeys == {ScreenKey(0)}

Today == (clock \div SecondsPerHour) \div 24

NoResults == [results |-> <<>>, total_found |-> 0, total_checked |-> 0,
              max_results |-> 0, symbols_screened |-> 0]

Payload(d) == [tag |-> "dict_str", items |-> <<d>>]

\* screen_stocks(max_results, use_dynamic_sp500, force_refresh), the other
\* parameters at their defaults
screen_stocks(max_results, use_dynamic_sp500, force_refresh, jsonOk, dippers) ==
    LET cache_key == ScreenKey(Today)
        cached_results == IF force_refresh THEN NoValue
                          ELSE CachedData(screenFiles[cache_key], SCREEN_CACHE_HOURS)
        sp == get_sp500_symbols(jsonOk)
        all_symbols == IF use_dynamic_sp500 THEN sp.symbols ELSE LARGE_CAP_TICKERS
        batch == IF use_dynamic_sp500
                 THEN get_screening_batch(all_symbols, max_results)
                 ELSE [first |-> 1, last |-> Min(max_results, LARGE_CAP_TICKERS)]
        found == ScreenLoop(batch.first, batch.last, <<>>, 0, max_results, dippers)
        screening_results ==
            [results |-> SortByChange(found.results),
             total_found |-> Len(found.results),
             total_checked |-> found.total_checked,
             max_results |-> max_results,
             symbols_screened |-> batch.last - batch.first + 1]
    IN  IF TruthyValue(cached_results)
        THEN /\ scan' = [called |-> TRUE, max_results |-> max_results,
                         use_dynamic_sp500 |-> use_dynamic_sp500,
                         force_refresh |-> force_refresh, from_cache |-> TRUE,
                         all_symbols |-> 0,
                         returned |-> cached_results.items[1]]
             /\ UNCHANGED <<fileVars, screenFiles>>
        ELSE /\ scan' = [called |-> TRUE, max_results |-> max_results,
                         use_dynamic_sp500 |-> use_dynamic_sp500,
                         force_refresh |-> force_refresh, from_cache |-> FALSE,
                         all_symbols |-> all_symbols,
                         returned |-> screening_results]
             /\ IF use_dynamic_sp500 /\ sp.load = "json"
                THEN _set_cached_data("actual_sp500_symbols",
                                      SymbolList(Sp500Companies), "")
                ELSE UNCHANGED fileVars
             /\ screenFiles' = [screenFiles EXCEPT ![cache_key] =
                                   Entry(clock, JsonDump(Payload(screening_results)))]

-----------------------------------------------------------------------------
(* The loop of screen_stocks, one instrument at a time (screener.py:      *)
(* 359-488): what the fetch delivers, the filters, the suspensions.  RSI   *)
(* in hundredths, the decline in hundredths of a percent, volume in        *)
(* millions of shares.                                                     *)

\* tables _alpha_vantage_history can deliver: closes that fall 20%, fall 10%
\* (RSI 0 for both), rise and fall back 10% (RSI above 40), stay flat (RSI
\* undefined); each just long enough for the RSI
ClosesTable(first, last) ==
    [t \in 1..(RsiPeriod + 1) |->
        Bar(10, IF t = 1 THEN first ELSE IF t = RsiPeriod + 1 THEN last ELSE 10)]
FallTable == ClosesTable(10, 8)
SlipTable == ClosesTable(10, 9)
BounceTable == ClosesTable(8, 9)
FlatTable == ClosesTable(10, 10)
OneRowTable == <<Bar(10, 8)>>

\* the latest Volume (NoneV: the table has no Volume column)
Volumes == {NoneV, 0, 5, 20}

Instrument(fetch, df, inPeriod, volume) ==
    [fetch |-> fetch, df |-> df, inPeriod |-> inPeriod, volume |-> volume]

\* what one instrument gives: the fetch raises, returns None or an empty
\* table, or a table of which inPeriod rows fall in the period
Instruments ==
    {Instrument(k, <<>>, 0, NoneV) : k \in {"raises", "None", "df"}}
    \cup {Instrument("df", t, Len(t), v) :
            t \in {FallTable, SlipTable, BounceTable, FlatTable}, v \in Volumes}
    \cup {Instrument("df", FallTable, 0, 20), Instrument("df", FallTable, 1, 20),
          Instrument("df", OneRowTable, 1, 20)}

\* the filters of a request: max_rsi 40.0 or 100.0, min_daily_drop 5.0,
\* min_volume None or 10 million
LoopRequests ==
    [max_results : 1..MaxResults, max_rsi : {4000, 10000},
     min_daily_drop : {500}, min_volume : {NoneV, 10}, symbols : 0..MaxBatch]

\* `if min_volume and current_volume and current_volume < min_volume`
VolumeRejects(min_volume, current_volume) ==
    /\ Truthy(min_volume)
    /\ Truthy(current_volume)
    /\ current_volume < min_volume

\* screener.py:374-399: RSI of the whole table, 50 when it is None
CurrentRsi(df) ==
    LET r == calculate_rsi(TRUE, Closes(df), RsiPeriod).value
    IN  IF r = NoneV THEN 5000 ELSE r

\* screener.py:363-480, the body of the loop for one instrument: the branch
\* it ends in and the result it appends
ScreenTicker(ticker, inst, req) ==
    LET df == inst.df
        m == BatchDecline(df, inst.inPeriod)
        none == [ticker |-> ticker, daily_change_pct |-> 0, rsi |-> 0,
                 volume |-> NoneV]
    IN  IF inst.fetch = "raises" THEN [branch |-> "error", result |-> none]
        ELSE IF inst.fetch = "None" \/ Len(df) = 0
        THEN [branch |-> "no data", result |-> none]
        ELSE IF Len(TailRows(df, inst.inPeriod)) = 0
        THEN [branch |-> "no data in period", result |-> none]
        ELSE IF m.skipped THEN [branch |-> "one row", result |-> none]
        ELSE IF m.value > -req.min_daily_drop
        THEN [branch |-> "drop filter", result |-> none]
        ELSE IF CurrentRsi(df) > req.max_rsi
        THEN [branch |-> "rsi filter", result |-> none]
        ELSE IF VolumeRejects(req.min_volume, inst.volume)
        THEN [branch |-> "volume filter", result |-> none]
        ELSE [branch |-> "passed",
              result |-> [ticker |-> ticker, daily_change_pct |-> m.value,
                          rsi |-> CurrentRsi(df),
                          volume |-> IF Truthy(inst.volume)
                                     THEN inst.volume ELSE NoneV]]

\* the branch does not reach time.sleep on an error
Suspends_NotOnError(branch) == branch # "error"

\* does the branch run time.sleep(DELAY_BETWEEN_CALLS) before the next
\* instrument?  screener.py:378, 385, 408, 428, 433, 438, 474, 479
Suspends(branch) ==
    branch \in {"no data", "no data in period", "one row", "drop filter",
                "rsi filter", "volume filter", "passed", "error"}

LoopIdle ==
    loop = [pc |-> "idle", request |-> [max_results |-> 0, max_rsi |-> 0,
                                        min_daily_drop |-> 0, min_volume |-> NoneV,
                                        symbols |-> 0],
            examined |-> <<>>, branches |-> <<>>, results |-> <<>>,
            total_checked |-> 0, events |-> <<>>]

LoopStarts ==
    {[pc |-> "loop", request |-> r, examined |-> <<>>, branches |-> <<>>,
      results |-> <<>>, total_checked |-> 0, events |-> <<>>] : r \in LoopRequests}

\* one pass through the body: the next symbol is fetched and screened
LoopIteration ==
    /\ loop.pc = "loop"
    /\ loop.total_checked < loop.request.symbols
    /\ Len(loop.results) < loop.request.max_results
    /\ \E inst \in Instruments :
          LET ticker == loop.total_checked + 1
              o == ScreenTicker(ticker, inst, loop.request)
          IN  loop' = [loop EXCEPT
                         !.examined = Append(@, inst),
                         !.branches = Append(@, o.branch),
                         !.results = IF o.branch = "passed"
                                     THEN Append(@, o.result) ELSE @,
                         !.total_checked = @ + 1,
                         !.events = @ \o <<"fetch">>
                                      \o (IF Suspends(o.branch)
                                          THEN <<"sleep">> ELSE <<>>)]
    /\ UNCHANGED <<clock, gateVars, histVars, fileVars, marketVars, scoreVars,
                   calcVars, screenFiles, scan, rot, stream, cmp>>

\* the loop is left (max_results reached or no symbol left) and the results
\* are sorted
LoopEnd ==
    /\ loop.pc = "loop"
    /\ \/ loop.total_checked >= loop.request.symbols
       \/ Len(loop.results) >= loop.request.max_results
    /\ loop' = [loop EXCEPT !.pc = "done", !.results = SortByChange(@)]
    /\ UNCHANGED <<clock, gateVars, histVars, fileVars, marketVars, scoreVars,
                   calcVars, screenFiles, scan, rot, stream, cmp>>

LoopNext ==
    \/ LoopIteration
    \/ LoopEnd

-----------------------------------------------------------------------------
(* Streaming screener: stream_screen_stocks and screen_single_stock        *)
(* (screener.py:529-698).  The generator advances from one yield to the    *)
(* next when its consumer asks for the next event.                         *)

\* screen_single_stock(ticker, max_rsi, min_daily_drop, period, min_volume):
\* the result, or None (<<>>) when there is no data, a filter rejects the
\* instrument or anything raises
screen_single_stock(ticker, inst, req) ==
    LET df == inst.df
    IN  IF inst.fetch = "raises" THEN <<>>
        ELSE IF inst.fetch = "None" \/ Len(df) = 0 \/ Len(df) < 2 THEN <<>>
        ELSE IF CurrentRsi(df) > req.max_rsi THEN <<>>
        ELSE IF calculate_period_drop(df, req.period).value > -req.min_daily_drop
        THEN <<>>
        ELSE IF VolumeRejects(req.min_volume, inst.volume) THEN <<>>
        ELSE <<[ticker |-> ticker,
                daily_change_pct |-> calculate_period_drop(df, req.period).value,
                rsi |-> CurrentRsi(df),
                volume |-> IF Truthy(inst.volume) THEN inst.volume ELSE NoneV]>>

\* the instruments a streaming scan meets
StreamInstruments ==
    {Instrument("raises", <<>>, 0, NoneV), Instrument("None", <<>>, 0, NoneV),
     Instrument("df", FallTable, Len(FallTable), 20),
     Instrument("df", SlipTable, Len(SlipTable), 0),
     Instrument("df", FlatTable, Len(FlatTable), 20)}

StreamRequests ==
    [max_results : 1..MaxResults, max_rsi : {4000}, min_daily_drop : {500},
     min_volume : {NoneV}, period : {"1w"}, symbols : 0..MaxUniverse]

\* "found" counts the results of the current sub-batch only
Found_InBatch(results, batch_results) == Len(batch_results)

\* "found": len(results)  (screener.py:597, 617)
Found(results, batch_results) == Len(results)

Event(type, checked, total, found, batch_number, stocks) ==
    [type |-> type, checked |-> checked, total |-> total, found |-> found,
     batch_number |-> batch_number, stocks |-> stocks]

\* batch_complete is emitted only for a sub-batch that found something
EndOfBatch_OnlyWithResults(st) ==
    IF st.batch_results = <<>> THEN <<>>
    ELSE <<Event("batch_complete", st.total_checked, st.total,
                 Found(st.results, st.batch_results), (st.i \div BatchSize) + 1,
                 <<>>)>>

\* what is yielded when the inner loop is left (screener.py:609-620)
EndOfBatch(st) ==
    <<Event("batch_complete", st.total_checked, st.total,
            Found(st.results, st.batch_results), (st.i \div BatchSize) + 1, <<>>)>>

StreamIdle ==
    stream = [pc |-> "idle", request |-> [max_results |-> 0, max_rsi |-> 0,
                                          min_daily_drop |-> 0,
                                          min_volume |-> NoneV, symbols |-> 0],
              total |-> 0, i |-> 0, j |-> 0, results |-> <<>>,
              batch_results |-> <<>>, total_checked |-> 0, batches |-> 0,
              events |-> <<>>, screened |-> <<>>, stop |-> FALSE, stopAt |-> 0]

StreamStarts ==
    {[pc |-> "called", request |-> r, total |-> 0, i |-> 0, j |-> 0,
      results |-> <<>>, batch_results |-> <<>>, total_checked |-> 0,
      batches |-> 0, events |-> <<>>, screened |-> <<>>, stop |-> FALSE,
      stopAt |-> 0] : r \in StreamRequests}

StreamUnchanged ==
    UNCHANGED <<clock, gateVars, histVars, fileVars, marketVars, scoreVars,
                calcVars, screenFiles, scan, rot, loop, cmp>>

\* screener.py:549-567: the symbols are chosen and "start" is yielded
StreamStart ==
    /\ stream.pc = "called"
    /\ LET batch == get_screening_batch(stream.request.symbols,
                                        stream.request.max_results)
           total == batch.last - batch.first + 1
       IN  stream' = [stream EXCEPT
                        !.pc = IF total = 0 THEN "final" ELSE "batch",
                        !.total = total,
                        !.events = Append(@, Event("start", 0, total, 0, 0, <<>>))]
    /\ StreamUnchanged

\* the inner loop is over: no ticker left in the sub-batch, or max_results
\* reached (screener.py:574-576)
BatchOver(st) ==
    \/ st.i + st.j >= Min(st.i + BatchSize, st.total)
    \/ Len(st.results) >= st.request.max_results

\* screener.py:574-607: one ticker of the sub-batch is screened; a result is
\* appended and yielded at once
StreamScreen ==
    /\ stream.pc = "batch"
    /\ ~BatchOver(stream)
    /\ \E inst \in StreamInstruments :
          LET ticker == stream.i + stream.j + 1
              result == screen_single_stock(ticker, inst, stream.request)
              results == stream.results \o result
              batch_results == stream.batch_results \o result
              checked == stream.total_checked + 1
          IN  stream' = [stream EXCEPT
                           !.j = @ + 1,
                           !.total_checked = checked,
                           !.results = results,
                           !.batch_results = batch_results,
                           !.screened = Append(@, (stream.i \div BatchSize) + 1),
                           !.events =
                               IF result = <<>> THEN @
                               ELSE Append(@, Event("result", checked, stream.total,
                                                    Found(results, batch_results),
                                                    0, result))]
    /\ StreamUnchanged

\* screener.py:609-623: "batch_complete" is yielded; the outer loop goes on
\* with the next sub-batch unless max_results is reached or none is left
StreamBatchComplete ==
    /\ stream.pc = "batch"
    /\ BatchOver(stream)
    /\ stream' = [stream EXCEPT
                    !.events = @ \o EndOfBatch(stream),
                    !.batches = @ + 1,
                    !.i = @ + BatchSize,
                    !.j = 0,
                    !.batch_results = <<>>,
                    !.pc = IF \/ Len(stream.results) >= stream.request.max_results
                              \/ stream.i + BatchSize >= stream.total
                           THEN "final" ELSE "batch"]
    /\ StreamUnchanged

\* screener.py:625-636: "complete" is yielded and the generator ends
StreamComplete ==
    /\ stream.pc = "final"
    /\ stream' = [stream EXCEPT
                    !.pc = "done",
                    !.events = Append(@, Event("complete", stream.total_checked,
                                               stream.total, Len(stream.results),
                                               0, stream.results))]
    /\ StreamUnchanged

\* the consumer asks for the next event
StreamStep ==
    \/ StreamStart
    \/ StreamScreen
    \/ StreamBatchComplete
    \/ StreamComplete

\* the stop signal is raised from outside while the scan runs; stopAt is
\* the sub-batch in progress at that moment (0 before the first)
RaiseStop ==
    /\ stream.pc \in {"called", "batch", "final"}
    /\ ~stream.stop
    /\ stream' = [stream EXCEPT
                    !.stop = TRUE,
                    !.stopAt = IF stream.pc = "called" THEN 0
                               ELSE IF stream.pc = "final" THEN stream.batches
                               ELSE stream.batches + 1]
    /\ StreamUnchanged

StreamNext ==
    \/ StreamStep
    \/ RaiseStop

-----------------------------------------------------------------------------
(* One instrument under the three screeners: the loop body of screen_stocks, *)
(* screen_single_stock as stream_screen_stocks calls it, and as              *)
(* quick_screen_stocks calls it (screener.py:746-808)                        *)

\* quick_screen_stocks: screen_single_stock(ticker, max_rsi + 10,
\* min_daily_drop - 1, period, min_volume)
QuickRequest(req) ==
    [req EXCEPT !.max_rsi = @ + 1000, !.min_daily_drop = @ - 100]

\* a history with two closes, too short for calculate_rsi
ShortFallTable == <<Bar(10, 10), Bar(10, 8)>>

\* the rows filter_by_date_range keeps of a table that ends with the latest
\* session: for today/1d the bar of today when there is one (none before the
\* first bar of the day and on days without a session), for 1w every row of
\* these tables
RowsKept(df, period) ==
    IF period \in {"today", "1d"} THEN {0, 1} ELSE {Len(df)}

CompareRequests ==
    [max_rsi : {4000, 5000}, min_daily_drop : {500}, min_volume : {NoneV, 10},
     period : {"today", "1w"}]

NotScreened == [done |-> FALSE, accepted |-> FALSE, decline |-> 0, rsi |-> 0]
Screened(accepted, result) ==
    [done |-> TRUE, accepted |-> accepted,
     decline |-> IF accepted THEN result.daily_change_pct ELSE 0,
     rsi |-> IF accepted THEN result.rsi ELSE 0]

\* what screen_single_stock returned: a result or None
SingleOutcome(returned) ==
    IF returned = <<>> THEN Screened(FALSE, <<>>) ELSE Screened(TRUE, returned[1])

CompareCalls ==
    {c \in {[inst |-> Instrument("df", t, n, v), request |-> r,
             batch |-> NotScreened, streaming |-> NotScreened,
             quick |-> NotScreened] :
                t \in {FallTable, SlipTable, BounceTable, FlatTable,
                       ShortFallTable},
                n \in 0..(RsiPeriod + 1), v \in {5, 20}, r \in CompareRequests} :
        c.inst.inPeriod \in RowsKept(c.inst.df, c.request.period)}

CompareIdle ==
    cmp = [inst |-> Instrument("None", <<>>, 0, NoneV),
           request |-> [max_rsi |-> 0, min_daily_drop |-> 0, min_volume |-> NoneV,
                        period |-> "1w"],
           batch |-> NotScreened, streaming |-> NotScreened, quick |-> NotScreened]

CompareUnchanged ==
    UNCHANGED <<clock, gateVars, histVars, fileVars, marketVars, scoreVars,
                calcVars, screenFiles, scan, rot, loop, stream>>

\* screen_stocks examines the instrument
BatchScreens ==
    /\ ~cmp.batch.done
    /\ LET o == ScreenTicker(1, cmp.inst, cmp.request)
       IN  cmp' = [cmp EXCEPT !.batch = Screened(o.branch = "passed", o.result)]
    /\ CompareUnchanged

\* stream_screen_stocks examines it
StreamScreens ==
    /\ ~cmp.streaming.done
    /\ cmp' = [cmp EXCEPT !.streaming =
                  SingleOutcome(screen_single_stock(1, cmp.inst, cmp.request))]
    /\ CompareUnchanged

\* quick_screen_stocks examines it
QuickScreens ==
    /\ ~cmp.quick.done
    /\ cmp' = [cmp EXCEPT !.quick =
                  SingleOutcome(screen_single_stock(1, cmp.inst,
                                                    QuickRequest(cmp.request)))]
    /\ CompareUnchanged

CompareNext ==
    \/ BatchScreens
    \/ StreamScreens
    \/ QuickScreens

-----------------------------------------------------------------------------
(* screen_stocks as one call, and the cache of its results *)

NoScan == [called |-> FALSE, max_results |-> 0, use_dynamic_sp500 |-> FALSE,
           force_refresh |-> FALSE, from_cache |-> FALSE, all_symbols |-> 0,
           returned |-> NoResults]

ScreenInit ==
    /\ screenFiles = [k \in ScreenKeys |-> NoFile]
    /\ scan = NoScan
    /\ RotationIdle
    /\ LoopIdle
    /\ StreamIdle
    /\ CompareIdle

ScreenStocks ==
    \E max_results \in 1..MaxResults, use_dynamic_sp500 \in BOOLEAN,
       force_refresh \in BOOLEAN, dippers \in SUBSET DipSymbols :
        \E jsonOk \in (IF use_dynamic_sp500 THEN BOOLEAN ELSE {TRUE}) :
            /\ screen_stocks(max_results, use_dynamic_sp500, force_refresh,
                             jsonOk, dippers)
            /\ UNCHANGED <<clock, gateVars, histVars, marketVars, scoreVars,
                           calcVars, rot, loop, stream, cmp>>

\* an hour passes: the lifetime of a cached scan
HourPasses ==
    /\ clock + SecondsPerHour <= MaxScanHours * SecondsPerHour + YF_MIN_INTERVAL + 1
    /\ clock' = clock + SecondsPerHour
    /\ UNCHANGED <<gateVars, histVars, fileVars, marketVars, scoreVars,
                   calcVars, screenVars>>

ScreenNext ==
    \/ ScreenStocks
    \/ HourPasses

-----------------------------------------------------------------------------
(* Specifications *)

\* time.time() is seconds since the epoch: far beyond YF_MIN_INTERVAL, so the
\* first passage finds _LAST_CALL_TS = 0.0 long past.  The configuration is
\* whatever the environment sets.
InitBase ==
    /\ clock = YF_MIN_INTERVAL + 1
    /\ GateInit
    /\ DATA_PROVIDER \in Providers
    /\ HistInit
    /\ FileInit
    /\ ENABLE_MARKET_CONTEXT \in BOOLEAN
    /\ MarketInit

\* no calculation has been asked for
CalcIdle ==
    /\ TierIdle
    /\ RsiIdle
    /\ OversoldIdle
    /\ DeclineIdle

Init ==
    /\ InitBase
    /\ ScoreInit
    /\ CalcIdle
    /\ ScreenInit

\* the configuration when the environment sets nothing
InitDefault ==
    /\ Init
    /\ DATA_PROVIDER = "auto"
    /\ ENABLE_MARKET_CONTEXT

\* evaluate_strategy is a function of the snapshot alone: any snapshot
InitScore ==
    /\ InitBase
    /\ DATA_PROVIDER = "auto"
    /\ ENABLE_MARKET_CONTEXT
    /\ metrics \in Snapshots
    /\ ev = NoEval
    /\ readings = NoReadings
    /\ dip = NoDip
    /\ CalcIdle
    /\ ScreenInit

\* classify_tier is a function of its arguments alone: any arguments
InitTier ==
    /\ InitBase
    /\ DATA_PROVIDER = "auto"
    /\ ENABLE_MARKET_CONTEXT
    /\ ScoreInit
    /\ tq \in TierCalls
    /\ RsiIdle /\ OversoldIdle /\ DeclineIdle
    /\ ScreenInit

\* calculate_rsi on any series and window
InitRsi ==
    /\ InitBase
    /\ DATA_PROVIDER = "auto"
    /\ ENABLE_MARKET_CONTEXT
    /\ ScoreInit
    /\ rsi \in RsiCalls
    /\ TierIdle /\ OversoldIdle /\ DeclineIdle
    /\ ScreenInit

\* the days-oversold loop on any history
InitOversold ==
    /\ InitBase
    /\ DATA_PROVIDER = "auto"
    /\ ENABLE_MARKET_CONTEXT
    /\ ScoreInit
    /\ dov \in OversoldCalls
    /\ TierIdle /\ RsiIdle /\ DeclineIdle
    /\ ScreenInit

\* the decline measure on any table, in either mode
InitDecline ==
    /\ InitBase
    /\ DATA_PROVIDER = "auto"
    /\ ENABLE_MARKET_CONTEXT
    /\ ScoreInit
    /\ pdrop \in DeclineCalls
    /\ TierIdle /\ RsiIdle /\ OversoldIdle
    /\ ScreenInit

\* the free-tier rotation on any universe, from any day of the year
InitRotation ==
    /\ InitBase
    /\ DATA_PROVIDER = "auto"
    /\ ENABLE_MARKET_CONTEXT
    /\ ScoreInit
    /\ CalcIdle
    /\ screenFiles = [k \in ScreenKeys |-> NoFile]
    /\ scan = NoScan
    /\ rot \in Rotations
    /\ LoopIdle
    /\ StreamIdle
    /\ CompareIdle

\* the loop of screen_stocks on any request
InitLoop ==
    /\ InitBase
    /\ DATA_PROVIDER = "auto"
    /\ ENABLE_MARKET_CONTEXT
    /\ ScoreInit
    /\ CalcIdle
    /\ screenFiles = [k \in ScreenKeys |-> NoFile]
    /\ scan = NoScan
    /\ RotationIdle
    /\ loop \in LoopStarts
    /\ StreamIdle
    /\ CompareIdle

\* stream_screen_stocks called with any request
InitStream ==
    /\ InitBase
    /\ DATA_PROVIDER = "auto"
    /\ ENABLE_MARKET_CONTEXT
    /\ ScoreInit
    /\ CalcIdle
    /\ screenFiles = [k \in ScreenKeys |-> NoFile]
    /\ scan = NoScan
    /\ RotationIdle
    /\ LoopIdle
    /\ stream \in StreamStarts
    /\ CompareIdle

\* one instrument screened in the three modes, under any filters
InitCompare ==
    /\ InitBase
    /\ DATA_PROVIDER = "auto"
    /\ ENABLE_MARKET_CONTEXT
    /\ ScoreInit
    /\ CalcIdle
    /\ screenFiles = [k \in ScreenKeys |-> NoFile]
    /\ scan = NoScan
    /\ RotationIdle
    /\ LoopIdle
    /\ StreamIdle
    /\ cmp \in CompareCalls

Next ==
    \/ GateNext
    \/ HistNext
    \/ FileNext
    \/ MarketNext
    \/ ScoreNext
    \/ AnalyzeNext
    \/ DipNext
    \/ TierNext
    \/ RsiNext
    \/ OversoldNext
    \/ DeclineNext
    \/ ScreenNext
    \/ RotationNext
    \/ LoopNext
    \/ StreamNext
    \/ CompareNext

Spec == Init /\ [][Next]_vars

\* concurrent callers of the rate limiter
SpecGate == InitDefault /\ [][GateNext]_vars

\* one caller fetching histories
SpecHistory == Init /\ [][HistNext]_vars

\* the file cache over a few hours
SpecFileCache == InitDefault /\ [][FileNext]_vars

\* one caller asking for the market context over a few cache lifetimes
SpecMarket == Init /\ [][MarketNext]_vars

\* the /check-dip path: analyze_ticker, then evaluate_strategy
SpecAnalyze == InitDefault /\ [][AnalyzeNext]_vars

\* requests to /check-dip
SpecDip == InitDefault /\ [][DipNext]_vars

\* evaluate_strategy applied to every snapshot
SpecScore == InitScore /\ [][ScoreNext]_vars

\* classify_tier applied to every argument tuple
SpecTier == InitTier /\ [][TierNext]_vars

\* calculate_rsi applied to every series
SpecRsi == InitRsi /\ [][RsiNext]_vars

\* the days-oversold loop applied to every history
SpecOversold == InitOversold /\ [][OversoldNext]_vars

\* the decline measure of both screening modes applied to every table
SpecDecline == InitDecline /\ [][DeclineNext]_vars

\* one caller of the batch screener over a few hours
SpecScreen == InitDefault /\ [][ScreenNext]_vars

\* the free tier screening once a day
SpecRotation == InitRotation /\ [][RotationNext]_vars

\* the loop of screen_stocks over the symbols of one request
SpecLoop == InitLoop /\ [][LoopNext]_vars

\* one streaming scan; its consumer may raise the stop signal
SpecStream == InitStream /\ [][StreamNext]_vars

\* the same, with a consumer that keeps asking for the next event
\* one instrument screened by screen_stocks, stream_screen_stocks and
\* quick_screen_stocks
SpecCompare == InitCompare /\ [][CompareNext]_vars

SpecStreamLive == SpecStream /\ WF_vars(StreamStep)

\* one caller fetching histories and asking for the market context
SpecProviders == Init /\ [][ProvidersNext]_vars

-----
(* C1: at most one caller at a time is inside the read-elapsed / wait /    *)
(* update-timestamp section of _respect_rate_limit, and the timestamps     *)
(* recorded by two consecutive passages differ by at least YF_MIN_INTERVAL *)
C1_GateSerializes ==
    /\ Cardinality({c \in Callers : pc[c] \in InGate}) <= 1
    /\ passes >= 2 => _LAST_CALL_TS - prevStamp >= YF_MIN_INTERVAL

\* two passages exactly YF_MIN_INTERVAL apart (the second one slept), while
\* another caller is waiting for the lock the second still holds
C1_Witness ==
    /\ passes >= 2
    /\ _LAST_CALL_TS - prevStamp = YF_MIN_INTERVAL
    /\ \E c, d \in Callers :
          /\ c # d
          /\ pc[c] = "acquire"
          /\ pc[d] = "release"
          /\ _RATE_LOCK = d

(* C2: every request to the primary provider is preceded by a passage      *)
(* through the gate made for it (history fetch, market-context download,   *)
(* analyze_ticker)                                                         *)
C2_EveryRequestGated ==
    \A r \in requests : r.gated

(* C3: in auto mode get_daily_history asks the primary provider first, asks *)
(* the secondary iff the primary gave nothing (None, an empty table, an     *)
(* error or throttling), returns the secondary's rows when there are some,  *)
(* raises RuntimeError iff both gave nothing, and never returns an empty    *)
(* series                                                                   *)
CountOf(rows, d) == Cardinality({i \in DOMAIN rows : rows[i] = d})
SameRows(a, b) == \A d \in 1..MaxDate : CountOf(a, d) = CountOf(b, d)
GaveNothing(resp) == resp.kind \in {"error", "none", "not_asked"} \/ resp.rows = <<>>

C3_AutoFallback ==
    (hist.called /\ DATA_PROVIDER = "auto") =>
        /\ hist.yahoo # NotAsked
        /\ hist.stooqCalled <=> GaveNothing(hist.yahoo)
        /\ ~GaveNothing(hist.yahoo) => (~hist.raised /\ hist.df.rows = hist.yahoo.rows)
        /\ (hist.stooqCalled /\ ~GaveNothing(hist.stooq)) =>
              (~hist.raised /\ hist.df.kind = "df" /\ SameRows(hist.df.rows, hist.stooq.rows))
        /\ hist.raised <=> (GaveNothing(hist.yahoo) /\ GaveNothing(hist.stooq))
        /\ ~hist.raised => hist.df.rows # <<>>

\* the primary was throttled and the secondary's rows came back
C3_Witness ==
    /\ hist.called
    /\ DATA_PROVIDER = "auto"
    /\ hist.yahoo.kind = "error"
    /\ hist.stooqCalled
    /\ Len(hist.stooq.rows) = 2
    /\ ~hist.raised
    /\ SameRows(hist.df.rows, hist.stooq.rows)

(* C4: every series get_daily_history returns, in any provider mode, is     *)
(* strictly increasing by date with no duplicate dates, whatever the order  *)
(* in which the provider delivered the rows                                 *)
StrictlyIncreasing(rows) == \A i \in 1..(Len(rows) - 1) : rows[i] < rows[i + 1]

C4_SeriesStrictlyIncreasing ==
    (hist.called /\ ~hist.raised) => StrictlyIncreasing(hist.df.rows)

(* C5: _set_cached_data(k, v) followed by _get_cached_data(k, ttl) returns  *)
(* exactly v while the entry's age is below ttl, and a miss once the age is *)
(* at or above ttl                                                          *)
SetThenGet == fc.op = "get" /\ lastSet[fc.key].made
AgeAtGet == fc.at - lastSet[fc.key].at

JsonNative(v) == v.tag \in {"list", "dict_str"}

C6_CacheBestEffort ==
    fc.op # "none" =>
        /\ ~fc.raised
        /\ (fc.op = "get" /\ fc.failed) => ~fc.hit
        /\ (fc.op = "set" /\ fc.failed) => ~fc.entryLost

(* C7: a cache entry whose age is at or beyond its TTL is never returned by *)
(* a read, in the file-backed cache and in the market-context cache, also   *)
(* when the refresh attempted after expiry fails                            *)
C7_ExpiredNeverReturned ==
    /\ (fc.op = "get" /\ fc.hit) =>
          fc.at - files[fc.key].timestamp < fc.max_age * SecondsPerHour
    /\ (mc.called /\ mc.result # NoContext) =>
          mc.at - mc.result.created < MARKET_CACHE_TTL

(* C8: the volatility factor always substitutes a neutral default: for every *)
(* snapshot whose volatility reading is absent (key missing, or present as   *)
(* None as analyze_ticker leaves it) evaluate_strategy scores the factor     *)
(* with the default and returns a decision, score and rationale              *)
C8_VixNeutralDefault ==
    (ev.done /\ metrics.VIX \in {Missing, NoneV}) =>
        /\ ~ev.raised
        /\ ev.points[2] = VixFactor(200).pts
        /\ ev.verdict \in {"PLAY", "PASS"}

(* C9: the decision is actionable iff the factor sum is at least 0.6 and a  *)
(* signal flag of the RSI factor or of the decline factor is set; RSI=50,   *)
(* volatility=30, price at the 200-day MA, 0.5% above the low totals 0.65   *)
(* and is a PASS                                                            *)
SumPoints(p) == p[1] + p[2] + p[3] + p[4] + p[5] + p[6]

NoSignalSnapshot ==
    [RSI |-> 500, VIX |-> 300, percent_drop |-> 0, rolling_5d_drop |-> 0,
     rolling_10d_drop |-> 0, max_recent_drop |-> 0, distance_from_low |-> 5,
     price_vs_200ma |-> 0, days_oversold |-> 0]

C9_DecisionNeedsSignal ==
    (ev.done /\ ~ev.raised) =>
        /\ ev.is_play <=> (SumPoints(ev.points) >= 60 /\ (ev.rsi_signal \/ ev.drop_signal))
        /\ ev.is_play <=> ev.verdict = "PLAY"
        /\ metrics = NoSignalSnapshot =>
              (SumPoints(ev.points) = 65 /\ ~ev.is_play /\ ev.verdict = "PASS")

\* the 0.65 snapshot without a signal was scored and passed over
C9_Witness ==
    /\ ev.done
    /\ metrics = NoSignalSnapshot
    /\ ev.score = 65
    /\ ~ev.rsi_signal /\ ~ev.drop_signal
    /\ ev.verdict = "PASS"

(* C10: the score returned lies in [0,1] and equals min(sum of the six      *)
(* factor contributions, 1.0); RSI=10, volatility=30, 1-day drop -10%, at   *)
(* the low, within 1% of the 200-day MA, 5 oversold days sums to 1.40 and   *)
(* returns 1.0                                                              *)
MaximalSignal(m) ==
    /\ m.RSI = 100
    /\ m.VIX = 300
    /\ m.percent_drop = -100
    /\ m.distance_from_low = 0
    /\ m.price_vs_200ma \in {0, 10}
    /\ m.days_oversold = 5

C10_ScoreClamped ==
    (ev.done /\ ~ev.raised) =>
        /\ ev.score >= 0 /\ ev.score <= 100
        /\ ev.score = Min(SumPoints(ev.points), 100)
        /\ MaximalSignal(metrics) => (SumPoints(ev.points) = 140 /\ ev.score = 100)

\* the maximal-signal snapshot was scored: 1.40 before the clamp, 1.0 after
C10_Witness ==
    /\ ev.done
    /\ MaximalSignal(metrics)
    /\ SumPoints(ev.points) = 140
    /\ ev.score = 100
    /\ ev.is_play

(* C11: the decline-magnitude factor awards the points of exactly one      *)
(* category, the first that matches in the order 1-day (>=8% .30, >=5%     *)
(* .25), 5-day (>=10% .28, >=7% .23), 10-day (>=5% .18), 30-day-max        *)
(* (>=8% .20, >=5% .15), and 0 when none matches; a 1-day drop of -9%      *)
(* with a 5-day drop of -12% adds .30 only                                 *)
FirstMatchingCategory(m) ==
    IF Abs(m.percent_drop) >= 80 THEN 30
    ELSE IF Abs(m.percent_drop) >= 50 THEN 25
    ELSE IF Abs(m.rolling_5d_drop) >= 100 THEN 28
    ELSE IF Abs(m.rolling_5d_drop) >= 70 THEN 23
    ELSE IF Abs(m.rolling_10d_drop) >= 50 THEN 18
    ELSE IF Abs(m.max_recent_drop) >= 80 THEN 20
    ELSE IF Abs(m.max_recent_drop) >= 50 THEN 15
    ELSE 0

C11_FirstMatchingCategory ==
    (ev.done /\ ~ev.raised) =>
        /\ ev.points[3] = FirstMatchingCategory(metrics)
        /\ (metrics.percent_drop = -90 /\ metrics.rolling_5d_drop = -120)
              => ev.points[3] = 30

(* C12: when neither a 1-day level (>=5%) nor a 5-day level (>=7%)         *)
(* matches, a 10-day drawdown of at least 5% adds .18 and does not set the *)
(* decline signal flag; the flag is set only by the 1-day and 5-day levels *)
NoDayLevel(m) == Abs(m.percent_drop) < 50 /\ Abs(m.rolling_5d_drop) < 70

C12_TenDayLevel ==
    (ev.done /\ ~ev.raised) =>
        /\ (NoDayLevel(metrics) /\ Abs(metrics.rolling_10d_drop) >= 50)
              => (ev.points[3] = 18 /\ ~ev.drop_signal)
        /\ ev.drop_signal => ~NoDayLevel(metrics)

(* C13: classify_tier returns A iff actionable, confidence >= 0.8 and      *)
(* credit >= 100; otherwise B iff actionable, confidence >= 0.7 and        *)
(* 80 <= credit < 100; otherwise C iff actionable and confidence >= 0.6;   *)
(* otherwise PASS.  Confidence 0.80 with credit 100.00 is A; confidence    *)
(* 0.79999 with credit 100 is at best C                                    *)
CreditIn(credit, lo, hi) == credit # NoneV /\ lo <= credit /\ credit < hi

IsA(t) == t.is_play /\ t.confidence_score >= 80000
          /\ CreditIn(t.estimated_credit, 10000, 1000000000)

IsB(t) == t.is_play /\ ~IsA(t) /\ t.confidence_score >= 70000
          /\ CreditIn(t.estimated_credit, 8000, 10000)

IsC(t) == t.is_play /\ ~IsA(t) /\ ~IsB(t) /\ t.confidence_score >= 60000

C13_TierBoundaries ==
    tq.called =>
        /\ tq.tier = "A" <=> IsA(tq)
        /\ tq.tier = "B" <=> IsB(tq)
        /\ tq.tier = "C" <=> IsC(tq)
        /\ tq.tier = "PASS" <=> (~IsA(tq) /\ ~IsB(tq) /\ ~IsC(tq))
        /\ (tq.is_play /\ tq.confidence_score = 80000
               /\ tq.estimated_credit = 10000) => tq.tier = "A"
        /\ (tq.confidence_score = 79999 /\ tq.estimated_credit = 10000)
              => tq.tier \in {"C", "PASS"}

\* confidence 0.80 with credit 100.00 was classified A
C13_Witness ==
    /\ tq.called
    /\ tq.is_play
    /\ tq.confidence_score = 80000
    /\ tq.estimated_credit = 10000
    /\ tq.tier = "A"

(* C14: an absent RSI adds 0 points, sets no signal flag and is reported   *)
(* as unavailable / unknown; an absent price-vs-200-day-MA adds 0 points   *)
(* and is labelled unknown, not poor; neither absence makes scoring fail   *)
C14_AbsentReportedUnknown ==
    ev.done =>
        /\ ev.raised => metrics.VIX = NoneV
        /\ (~ev.raised /\ metrics.RSI = NoneV) =>
              /\ ev.points[1] = 0
              /\ ~ev.rsi_signal
              /\ ev.reasons[1] = "RSI unavailable"
              /\ ev.is_play => ev.quality[1] = "unknown"
        /\ (~ev.raised /\ metrics.price_vs_200ma = NoneV) =>
              /\ ev.points[5] = 0
              /\ ev.reasons[5] = "200MA data unavailable"
              /\ ev.is_play => (ev.quality[5] = "unknown" /\ ev.quality[5] # "poor")

\* a snapshot without RSI and without the 200-day MA was scored as a PLAY
C14_Witness ==
    /\ ev.done /\ ~ev.raised
    /\ metrics.RSI = NoneV
    /\ metrics.price_vs_200ma = NoneV
    /\ ev.is_play
    /\ ev.points[1] = 0 /\ ev.points[5] = 0
    /\ ev.quality[1] = "unknown" /\ ev.quality[5] = "unknown"

(* C15: calculate_rsi returns None, never an exception, for every input    *)
(* with fewer than window+1 observations, and returns a defined value only *)
(* for inputs with at least window+1 observations                          *)
C15_ShortSeriesUndefined ==
    rsi.done =>
        /\ ~rsi.raised
        /\ Len(rsi.prices) < rsi.window + 1 => rsi.result = NoneV
        /\ rsi.result # NoneV =>
              (rsi.iterable /\ Len(rsi.prices) >= rsi.window + 1)

\* a series of exactly window observations gave None and raised nothing
C15_Witness ==
    /\ rsi.done
    /\ rsi.iterable
    /\ rsi.window = 2
    /\ rsi.prices = <<3, 1>>
    /\ rsi.result = NoneV
    /\ ~rsi.raised

(* C16: for every series of at least window+1 observations without any     *)
(* down move (average loss 0), a constant series included, calculate_rsi   *)
(* returns 100 and no division fault occurs                                *)
NoDownMove(series) ==
    \A t \in 2..Len(series) : series[t] >= series[t - 1]

C16_SaturatesAtHundred ==
    (rsi.done /\ rsi.iterable /\ Len(rsi.prices) >= rsi.window + 1
       /\ NoDownMove(rsi.prices)) =>
        /\ rsi.exc = ""
        /\ rsi.result = 10000

(* C17: days_oversold is the length of the longest run of consecutive days,*)
(* from the latest day backward, on which the RSI of the history truncated *)
(* at that day is below 30; counting stops at the first day that is not    *)
(* oversold and after DaysChecked days, so the count never exceeds it      *)
RsiBelow30(closes, i) ==
    LET r == calculate_rsi(TRUE, SubSeq(closes, 1, Len(closes) - i), RsiPeriod).value
    IN  r # NoneV /\ r < 3000

OversoldRun(closes) ==
    LET stops == {i \in 0..DaysChecked :
                    i = DaysChecked \/ i >= Len(closes) \/ ~RsiBelow30(closes, i)}
    IN  CHOOSE i \in stops : \A j \in stops : i <= j

C17_OversoldRun ==
    dov.done =>
        /\ dov.days_oversold = OversoldRun(dov.closes)
        /\ dov.days_oversold <= DaysChecked

(* C18: the per-period decline measure is the most negative of the decline *)
(* from the period high to the current price, the minimum single-day       *)
(* return within the period and the decline from the period-start price to *)
(* the current price; with fewer than two observations in the period it is *)
(* the day-over-day change; batch and streaming mode both compute it       *)
ThreeCandidates(rows, current_price) ==
    Min(DropFromHigh(rows, current_price),
        Min(BiggestDailyDrop(rows), DropFromStart(rows, current_price)))

DayOverDay(df) == Pct(df[Len(df)].Close, df[Len(df) - 1].Close)

\* the rows of the table that fall in the period, by mode
PeriodRows(c) ==
    IF c.mode = "batch" THEN TailRows(c.df, c.inPeriod)
    ELSE TailRows(c.df, LookbackDays(c.period) + 1)

C18_DeclineMeasure ==
    (pdrop.done /\ Len(pdrop.df) >= 2) =>
        /\ ~pdrop.skipped
        /\ pdrop.value =
              IF Len(PeriodRows(pdrop)) >= 2
              THEN ThreeCandidates(PeriodRows(pdrop), pdrop.df[Len(pdrop.df)].Close)
              ELSE DayOverDay(pdrop.df)

(* C19: a batch scan stops examining instruments only when max_results     *)
(* candidates have been collected or every instrument of the loaded        *)
(* universe has been examined: a fresh scan that returned fewer than       *)
(* max_results candidates examined every instrument of the universe        *)
C19_ScanExhaustsUniverse ==
    (scan.called /\ ~scan.from_cache
       /\ scan.returned.total_found < scan.max_results) =>
        scan.returned.total_checked = scan.all_symbols

(* C20: every screen_stocks call returns at most its own max_results       *)
(* candidates, and a result cached for one request is never returned for a *)
(* request with a different max_results                                    *)
C20_OwnMaxResults ==
    scan.called =>
        /\ Len(scan.returned.results) <= scan.max_results
        /\ scan.from_cache => scan.returned.max_results = scan.max_results

(* C21: the candidate list of a fresh batch scan is sorted ascending by    *)
(* decline value, and holds exactly the examined instruments that passed   *)
(* the three filters: decline <= -min_daily_drop, RSI <= max_rsi, and      *)
(* volume >= min_volume when a minimum volume and a volume reading are     *)
(* both present                                                            *)
PassesFilters(inst, req) ==
    /\ inst.fetch = "df"
    /\ ~BatchDecline(inst.df, inst.inPeriod).skipped
    /\ BatchDecline(inst.df, inst.inPeriod).value <= -req.min_daily_drop
    /\ CurrentRsi(inst.df) <= req.max_rsi
    /\ (req.min_volume # NoneV /\ inst.volume # NoneV)
          => inst.volume >= req.min_volume

C21_SortedPassingInstruments ==
    loop.pc = "done" =>
        /\ \A k \in 1..(Len(loop.results) - 1) :
              loop.results[k].daily_change_pct <= loop.results[k + 1].daily_change_pct
        /\ {loop.results[k].ticker : k \in 1..Len(loop.results)}
              = {t \in 1..Len(loop.examined) :
                    PassesFilters(loop.examined[t], loop.request)}

(* C22: in batch mode every data fetch is followed by a DELAY_BETWEEN_CALLS *)
(* suspension before the next fetch, whatever happened to the instrument:   *)
(* it passed, a filter rejected it, it had no data, no data in the period,  *)
(* or an error was raised                                                   *)
C22_SuspensionAfterEveryFetch ==
    \A k \in 1..Len(loop.events) :
        loop.events[k] = "fetch" =>
            (k < Len(loop.events) /\ loop.events[k + 1] = "sleep")

\* an instrument whose fetch raised and one without data were followed by
\* further work
C22_Witness ==
    /\ loop.pc = "done"
    /\ loop.branches = <<"error", "no data">>
    /\ loop.events = <<"fetch", "sleep", "fetch", "sleep">>

(* C23: a streaming scan emits one start event first, then for each         *)
(* processed sub-batch zero or more result events followed by exactly one   *)
(* batch_complete event, and finally one complete event after which nothing *)
(* is emitted; the scan always reaches the complete event                   *)
EventsOfType(type) ==
    {k \in 1..Len(stream.events) : stream.events[k].type = type}

StreamGrammar ==
    /\ stream.pc \notin {"idle", "called"} => stream.events # <<>>
    /\ EventsOfType("start") = (IF stream.events = <<>> THEN {} ELSE {1})
    /\ Cardinality(EventsOfType("batch_complete")) = stream.batches
    /\ \A k \in EventsOfType("batch_complete") :
          stream.events[k].batch_number
              = Cardinality({j \in EventsOfType("batch_complete") : j <= k})
    /\ EventsOfType("complete")
          = (IF stream.pc = "done" THEN {Len(stream.events)} ELSE {})
    /\ \A k \in EventsOfType("complete") :
          stream.events[k - 1].type \in {"start", "batch_complete"}

RECURSIVE StocksOfResults(_)
StocksOfResults(events) ==
    IF events = <<>> THEN <<>>
    ELSE (IF Head(events).type = "result" THEN Head(events).stocks ELSE <<>>)
         \o StocksOfResults(Tail(events))

C24_RunningCounts ==
    \A k \in 1..Len(stream.events) :
        LET e == stream.events[k]
        IN  /\ e.found = Cardinality({j \in EventsOfType("result") : j <= k})
            /\ e.found <= stream.request.max_results
            /\ e.checked <= stream.events[1].total
            /\ k > 1 => stream.events[k - 1].checked <= e.checked
            /\ e.type = "complete" => e.stocks = StocksOfResults(stream.events)

\* the second sub-batch found the second stock
C24_Witness ==
    /\ stream.pc = "done"
    /\ stream.batches = 2
    /\ Len(stream.results) = 2
    /\ stream.results[2].ticker > BatchSize

(* C25: a streaming scan observes the stop signal between sub-batches:     *)
(* once the signal is raised, no instrument of a later sub-batch is        *)
(* fetched or screened                                                     *)
C25_StopBetweenBatches ==
    stream.stop =>
        \A k \in 1..Len(stream.screened) : stream.screened[k] <= stream.stopAt

(* C26: for a symbol of index shape (beginning with '^') the secondary     *)
(* provider path reports no data without sending any request to the        *)
(* secondary provider, and in stooq-only mode get_market_context never     *)
(* requests the volatility index                                           *)
C26_IndexShortCircuit ==
    /\ (hist.called /\ hist.ticker.caret) =>
          /\ hist.stooq = NotAsked
          /\ hist.stooqCalled => (hist.raised /\ hist.df = NoneDF)
    /\ (mc.called /\ DATA_PROVIDER = "stooq") => ~mc.vixAsked

\* in stooq-only mode an index symbol was asked for and the market context
\* was fetched
C26_Witness ==
    /\ DATA_PROVIDER = "stooq"
    /\ hist.called /\ hist.ticker.caret /\ hist.stooqCalled
    /\ mc.called /\ mc.path = "fetched"

(* C27: when the volatility source is unavailable (the market context is   *)
(* absent or carries no volatility level), the volatility reading          *)
(* analyze_ticker puts in the snapshot is a synthetic estimate marked as   *)
(* estimated: it is never None and never an unmarked value                 *)
VixUnavailable == mc.result = NoContext \/ mc.result.vix_level = NoneV

C27_SyntheticVixMarked ==
    (metrics # NoMetrics /\ VixUnavailable) =>
        /\ metrics.VIX # NoneV
        /\ "vix_source" \in DOMAIN metrics
        /\ metrics.vix_source = "estimated"

(* C28: in the free tier get_screening_batch called on consecutive days    *)
(* selects batches of at most max_stocks symbols, and every symbol of the  *)
(* universe is selected on at least one day of any run of total_batches    *)
(* consecutive days                                                        *)
TotalBatches(r) == (r.all_symbols + r.max_stocks - 1) \div r.max_stocks

Selected(b) == b.first..b.last

C28_RotationCoversUniverse ==
    /\ \A k \in 1..Len(rot.batches) :
          /\ Cardinality(Selected(rot.batches[k])) <= rot.max_stocks
          /\ Selected(rot.batches[k]) \subseteq 1..rot.all_symbols
    /\ \A k \in 1..(Len(rot.batches) - TotalBatches(rot) + 1) :
          UNION {Selected(rot.batches[j]) : j \in k..(k + TotalBatches(rot) - 1)}
              = 1..rot.all_symbols

(* C29: the decline-magnitude factor awards points and sets the decline    *)
(* signal flag only for declines: a 1-day return or 5-day change that is a *)
(* gain contributes what a change of zero contributes                      *)
DeclineOf(change) == Min(change, 0)

C29_DeclinesOnly ==
    (ev.done /\ ~ev.raised) =>
        LET f == DropFactor(DeclineOf(metrics.percent_drop),
                            DeclineOf(metrics.rolling_5d_drop),
                            metrics.max_recent_drop)
        IN  /\ ev.points[3] = f.pts
            /\ ev.drop_signal = f.signal

(* C30: an RSI of exactly 0 is a value, not an absent one: analyze_ticker  *)
(* reports it in the snapshot, and scoring such a snapshot awards the top  *)
(* RSI level and sets the RSI flag                                         *)
C30_ZeroRsiIsAValue ==
    (metrics # NoMetrics /\ readings.rsi = 0) =>
        /\ metrics.RSI = 0
        /\ (ev.done /\ ~ev.raised) => (ev.points[1] = 35 /\ ev.rsi_signal)

(* C31: in batch, streaming and quick screening an instrument whose RSI is  *)
(* undefined (insufficient history) never passes the max-RSI filter on the  *)
(* strength of a substituted value, whatever max_rsi is                     *)
RsiUndefined(df) == calculate_rsi(TRUE, Closes(df), RsiPeriod).value = NoneV

C31_UndefinedRsiNeverPasses ==
    RsiUndefined(cmp.inst.df) =>
        /\ ~cmp.batch.accepted
        /\ ~cmp.streaming.accepted
        /\ ~cmp.quick.accepted

(* C32: for the decision and the score evaluate_strategy returns and any    *)
(* credit value, classify_tier returns PASS iff the decision is not         *)
(* actionable: every actionable decision receives tier A, B or C            *)
TierOfEvaluation(estimated_credit) ==
    classify_tier(ConfidenceOf(ev.score), estimated_credit, ev.is_play)

C32_PassIffNotActionable ==
    (ev.done /\ ~ev.raised) =>
        \A estimated_credit \in Credits :
            /\ TierOfEvaluation(estimated_credit) \in {"A", "B", "C", "PASS"}
            /\ TierOfEvaluation(estimated_credit) = "PASS" <=> ~ev.is_play

\* an actionable decision whose factors sum to exactly .6: tier C whatever
\* the credit
C32_Witness ==
    /\ ev.done /\ ~ev.raised
    /\ ev.is_play
    /\ ev.score = 60
    /\ \A estimated_credit \in Credits : TierOfEvaluation(estimated_credit) = "C"

(* C33: for an actionable decision with fixed confidence the tier never     *)
(* gets worse as the credit estimate rises: with PASS < C < B < A, a larger *)
(* credit gives a tier at least as good                                     *)
TierRank(tier) ==
    CASE tier = "A" -> 3
      [] tier = "B" -> 2
      [] tier = "C" -> 1
      [] OTHER      -> 0

C33_TierMonotoneInCredit ==
    (tq.called /\ tq.is_play /\ tq.estimated_credit # NoneV) =>
        \A larger \in Credits \ {NoneV} :
            larger >= tq.estimated_credit =>
                TierRank(classify_tier(tq.confidence_score, larger, TRUE))
                    >= TierRank(tq.tier)

(* C34: when analyze_ticker reports that no data is available for a symbol, *)
(* check_dip surfaces it to the client as status 400 with the               *)
(* data-unavailable detail, distinguishable from the status 500 used for    *)
(* unexpected internal failures                                             *)
C34_NoDataIsClientError ==
    (dip.called /\ metrics = NoMetrics) =>
        /\ dip.status = 400
        /\ dip.detail = "No data available"

(* C35: a cache write that fails leaves the store unchanged: when           *)
(* _set_cached_data(k, v2) fails on a key holding the payload v1, a         *)
(* following _get_cached_data(k, ttl) within the TTL of v1 still returns v1 *)
GetAfterFailedSet ==
    /\ fc.op = "get" /\ fc.exc # "OSError"
    /\ lastSet[fc.key].made /\ ~lastSet[fc.key].ok
    /\ lastSet[fc.key].before.kind = "entry"
    /\ fc.at - lastSet[fc.key].before.timestamp < fc.max_age * SecondsPerHour

C35_FailedWriteKeepsPayload ==
    GetAfterFailedSet =>
        /\ fc.hit
        /\ fc.value = JsonLoad(lastSet[fc.key].before.content)

(* C36: for the same price history and the same filters (max RSI, min       *)
(* decline, min volume, period) batch mode and streaming mode make the same *)
(* accept/reject decision for an instrument and report the same decline     *)
C36_BatchAndStreamAgree ==
    (cmp.batch.done /\ cmp.streaming.done) =>
        /\ cmp.batch.accepted = cmp.streaming.accepted
        /\ cmp.batch.accepted => cmp.batch.decline = cmp.streaming.decline

(* C37: the streaming decline measure honours every lookback period: the    *)
(* number of trailing observations calculate_period_drop considers is       *)
(* non-decreasing along today, 3d, 1w, 2w, 1m, 3m, and the window used for  *)
(* 3m and for ytd is never shorter than the window used for 1m              *)
PeriodsByLength == <<"today", "3d", "1w", "2w", "1m", "3m">>

Considered(df, period) == Len(PeriodData(df, period))

C37_WindowGrowsWithPeriod ==
    (pdrop.done /\ pdrop.mode = "stream" /\ Len(pdrop.df) >= 2) =>
        /\ \A i, j \in 1..Len(PeriodsByLength) :
              i <= j => Considered(pdrop.df, PeriodsByLength[i])
                            <= Considered(pdrop.df, PeriodsByLength[j])
        /\ Considered(pdrop.df, "ytd") >= Considered(pdrop.df, "1m")

(* C38: provider modes are isolated: in yahoo-only mode get_daily_history   *)
(* never calls the secondary provider; in stooq-only mode get_daily_history *)
(* and get_market_context never call the primary provider and never enter   *)
(* the rate-limiter gate; in each fixed mode an empty result raises the     *)
(* data-unavailable error without the other provider being tried            *)
EmptyAnswer(resp) == resp.kind \in {"error", "none"} \/ resp.rows = <<>>

C38_ProviderModesIsolated ==
    /\ (DATA_PROVIDER = "yahoo" /\ hist.called) =>
          /\ ~hist.stooqCalled
          /\ hist.stooq = NotAsked
          /\ hist.yahoo # NotAsked
          /\ EmptyAnswer(hist.yahoo) => (hist.raised /\ hist.df = NoneDF)
    /\ DATA_PROVIDER = "stooq" =>
          /\ requests = {}
          /\ passes = 0
          /\ _LAST_CALL_TS = 0
          /\ hist.yahoo = NotAsked
          /\ hist.called =>
                /\ hist.stooqCalled
                /\ EmptyAnswer(hist.stooq) => (hist.raised /\ hist.df = NoneDF)

\* yahoo-only mode: Yahoo gave nothing and the call raised
C38_Witness ==
    /\ DATA_PROVIDER = "yahoo"
    /\ hist.called /\ EmptyAnswer(hist.yahoo) /\ hist.raised
    /\ mc.called

\* stooq-only mode: Stooq was asked and gave nothing, the call raised, and
\* the market context was fetched
C38_WitnessStooq ==
    /\ DATA_PROVIDER = "stooq"
    /\ hist.called /\ hist.stooq # NotAsked /\ hist.raised
    /\ mc.called /\ mc.path = "fetched"

====
